---- MODULE Spec2Model ----
(***************************************************************************)
(* invariant-gfx: the compositing and flow-layout operations.              *)
(*                                                                         *)
(*   ops/composite.py  composite, _determine_z_order, _resolve_position,   *)
(*                     _parse_alignment, _align_position                   *)
(*   ops/layout.py     layout                                              *)
(*   anchors.py        absolute, relative                                  *)
(*   artifacts.py      ImageArtifact, BlobArtifact: to_stream, from_stream *)
(*   ops/resize.py, ops/blob_to_image.py, ops/render_svg.py                *)
(*                     the scan for the one upstream artifact              *)
(*   recipes/drop_shadow.py  drop_shadow                                   *)
(*                                                                         *)
(* Strings that the code takes apart (alignment strings) are sequences of  *)
(* one-character strings.  Pixel coordinates and sizes are integers.       *)
(***************************************************************************)
EXTENDS Integers, Sequences, FiniteSets, TLC

VARIABLES
    manifest,      \* composite: the manifest handed to composite()
    pc,            \* composite: position of the invocation
    z_order,       \* composite: draw order computed by _determine_z_order
    canvas,        \* composite: the canvas (size and the pastes made on it)
    placed,        \* composite: the placement ledger, layer_id -> (x, y, w, h)
    k,             \* composite: index into z_order of the layer handled next
    result,        \* composite: the returned artifact
    error,         \* composite: the raised error
    layout_manifest,   \* layout: the manifest handed to layout()
    layout_pc,         \* layout: position of the invocation
    layout_canvas,     \* layout: the canvas (size and the pastes made on it)
    layout_index,      \* layout: index of the item pasted next
    layout_cursor,     \* layout: the main-axis position (x for row, y for column)
    layout_result,     \* layout: the returned artifact
    layout_error,      \* layout: the raised error
    align_str,         \* _parse_alignment: the argument
    parse_pc,          \* _parse_alignment: position of the invocation
    parse_result,      \* _parse_alignment: what it returned or raised
    stream,            \* artifacts: the bytes of the persisted stream
    stream_pos,        \* artifacts: the read position in the stream
    stream_pc,         \* artifacts: "writing", then "reading" from position 0
    written,           \* artifacts: the artifacts handed to to_stream, in order
    decoded,           \* artifacts: what from_stream returned or raised, in order
    intact,            \* artifacts: FALSE once the stream was cut short
    scan_op,           \* type scan: the operation invoked
    scan_manifest,     \* type scan: its manifest, the entries in iteration order
    scan_pc,           \* type scan: position of the invocation
    scan_result,       \* type scan: what the operation returned or raised
    recipe_args,       \* drop_shadow: the arguments of the call
    recipe_pc,         \* drop_shadow: position of the call
    recipe_result,     \* drop_shadow: the SubGraphNode returned
    heap,              \* shared images: the image objects, by reference
    calls,             \* shared images: the local state of each invocation
    given,             \* shared images: the manifests the invocations were given
    walk_layers,       \* _determine_z_order: the layers mapping it was handed
    walk_pc,           \* _determine_z_order: position of the invocation
    walk_order,        \* _determine_z_order: its local z_order
    walk_current,      \* _determine_z_order: its local current
    walk_error         \* _determine_z_order: the raised error

compositeVars == <<manifest, pc, z_order, canvas, placed, k, result, error>>

layoutVars == <<layout_manifest, layout_pc, layout_canvas, layout_index,
                layout_cursor, layout_result, layout_error>>

parseVars == <<align_str, parse_pc, parse_result>>

streamVars == <<stream, stream_pos, stream_pc, written, decoded, intact>>

scanVars == <<scan_op, scan_manifest, scan_pc, scan_result>>

recipeVars == <<recipe_args, recipe_pc, recipe_result>>

sharedVars == <<heap, calls, given>>

walkVars == <<walk_layers, walk_pc, walk_order, walk_current, walk_error>>

vars == <<compositeVars, layoutVars, parseVars, streamVars, scanVars, recipeVars,
          sharedVars, walkVars>>

(* What an action of one group leaves alone *)
notCompositeVars ==
    <<layoutVars, parseVars, streamVars, scanVars, recipeVars, sharedVars, walkVars>>

notLayoutVars ==
    <<compositeVars, parseVars, streamVars, scanVars, recipeVars, sharedVars, walkVars>>

notParseVars ==
    <<compositeVars, layoutVars, streamVars, scanVars, recipeVars, sharedVars, walkVars>>

notStreamVars ==
    <<compositeVars, layoutVars, parseVars, scanVars, recipeVars, sharedVars, walkVars>>

notScanVars ==
    <<compositeVars, layoutVars, parseVars, streamVars, recipeVars, sharedVars, walkVars>>

notRecipeVars ==
    <<compositeVars, layoutVars, parseVars, streamVars, scanVars, sharedVars, walkVars>>

notSharedVars ==
    <<compositeVars, layoutVars, parseVars, streamVars, scanVars, recipeVars, walkVars>>

notWalkVars ==
    <<compositeVars, layoutVars, parseVars, streamVars, scanVars, recipeVars,
      sharedVars>>

-----------------------------------------------------------------------------
(* Bounds of the model *)

MaxSize == 3       \* largest layer extent drawn for the composite inputs
MaxOff  == 2       \* largest anchor offset drawn for the composite inputs
MaxDim  == 2       \* largest item extent drawn for the layout inputs
MaxGap  == 2       \* largest gap drawn for the layout inputs
MaxAlignLen == 5   \* longest alignment string handed to _parse_alignment
MaxWritten == 2    \* most artifacts written back-to-back to one stream
MaxBytes == 2      \* longest blob payload written to a stream
MaxPix  == 2       \* largest image extent written to a stream
MaxDeps == 2       \* most upstream entries in the manifest of a type-scan operation
MaxShift == 1      \* largest shadow offset (dx, dy) handed to drop_shadow
MaxRadius == 2     \* largest spread radius handed to drop_shadow
MaxSigmaTenths == 11   \* largest blur sigma handed to drop_shadow, in tenths
MaxLayers == 4     \* most layers in a mapping handed to _determine_z_order

-----------------------------------------------------------------------------
(* Values *)

NoId     == "<none>"
NoError  == [code |-> "ok", layer |-> NoId, parent |-> NoId]
NoResult == [kind |-> "none"]
NoCanvas == [w |-> 0, h |-> 0, pastes |-> << >>, created |-> FALSE]

Err(code, layer, parent) == [code |-> code, layer |-> layer, parent |-> parent]

(* ImageArtifact: a raster artifact of the given extents (artifacts.py). *)
Image(w, h) == [kind |-> "image", w |-> w, h |-> h]
(* BlobArtifact: an artifact that is no ImageArtifact. *)
Blob == [kind |-> "blob", w |-> 0, h |-> 0]
(* No artifact bound under the layer's id in the manifest. *)
Missing == [kind |-> "missing", w |-> 0, h |-> 0]

(* anchors.absolute(x, y) *)
absolute(x, y) == [type |-> "absolute", x |-> x, y |-> y]

(* anchors.relative(parent, align, x, y) *)
relative(parent, align, x, y) ==
    [type |-> "relative", parent |-> parent, align |-> align, x |-> x, y |-> y]

(* A layer spec that carries no anchor: spec.get("type") is None. *)
NoAnchor == [type |-> "none"]

(* One entry of the layers value: the layer id, its anchor spec and the
   artifact bound to it (manifest[layer_id]). *)
Layer(id, anchor, image) == [id |-> id, anchor |-> anchor, image |-> image]

(* The manifest of layout: direction, align, gap and the artifacts bound to
   the ids listed in items, in the order of items.  The gap is a Decimal,
   kept as a count of half pixels. *)
LayoutManifest(keys, direction, align, gap, items) ==
    [keys |-> keys, direction |-> direction, align |-> align, gap |-> gap,
     items |-> items]

LayoutKeys == {"direction", "align", "gap", "items"}
NoLayoutManifest == LayoutManifest({}, "", "", 0, << >>)

-----------------------------------------------------------------------------
(* Sequence helpers *)

Range(s) == {s[i] : i \in 1..Len(s)}

(* The entries of a layers mapping whose key is id, in insertion order. *)
EntryOf(layers, id) == layers[CHOOSE i \in 1..Len(layers) : layers[i].id = id]

Ids(layers) == [i \in 1..Len(layers) |-> layers[i].id]

-----------------------------------------------------------------------------
(* _parse_alignment *)

Comma == ","
At    == "@"
Space == " "

(* str.split(","): the parts between the commas. *)
RECURSIVE Split(_)
Split(s) ==
    IF \A i \in 1..Len(s) : s[i] # Comma
    THEN << s >>
    ELSE LET i == CHOOSE j \in 1..Len(s) :
                     s[j] = Comma /\ \A m \in 1..(j - 1) : s[m] # Comma
         IN  << SubSeq(s, 1, i - 1) >> \o Split(SubSeq(s, i + 1, Len(s)))

(* str.strip(): leading and trailing whitespace removed. *)
RECURSIVE Strip(_)
Strip(s) ==
    IF s = << >> THEN s
    ELSE IF s[1] = Space THEN Strip(Tail(s))
    ELSE IF s[Len(s)] = Space THEN Strip(SubSeq(s, 1, Len(s) - 1))
    ELSE s

AlignCodes == {"s", "c", "e"}

Parsed(err, self, parent) == [err |-> err, self |-> self, parent |-> parent]

_parse_alignment(str) ==
    LET parts == Split(str)
    IN  IF Len(parts) # 2
        THEN Parsed("E_ALIGN_FORMAT", << >>, << >>)
        ELSE
        LET self_str   == Strip(parts[1])
            parent_str == Strip(parts[2])
            self_align == IF Len(self_str) = 1
                          THEN << self_str[1], self_str[1] >>
                          ELSE self_str
            parent_align == IF Len(parent_str) = 1
                            THEN << parent_str[1], parent_str[1] >>
                            ELSE parent_str
        IN  IF Len(self_str) \notin {1, 2}
            THEN Parsed("E_SELF_ALIGN_LEN", << >>, << >>)
            ELSE IF Len(parent_str) \notin {1, 2}
            THEN Parsed("E_PARENT_ALIGN_LEN", << >>, << >>)
            ELSE IF \E i \in 1..2 : self_align[i] \notin AlignCodes
                                    \/ parent_align[i] \notin AlignCodes
            THEN Parsed("E_ALIGN_CHAR", << >>, << >>)
            ELSE Parsed("ok", self_align, parent_align)

-----------------------------------------------------------------------------
(* _align_position *)

(* Python's // on integers: floor division (the divisor here is 2). *)
FloorDiv2(n) == n \div 2

(* Variant: centre-on-centre computed from the difference of the sizes. *)
_align_position_diff(self_align, parent_align, self_size, parent_size, parent_pos, offset) ==
    IF self_align = "c" /\ parent_align = "c"
    THEN parent_pos + FloorDiv2(parent_size - self_size) + offset
    ELSE LET parent_point ==
                 IF parent_align = "s" THEN parent_pos
                 ELSE IF parent_align = "c" THEN parent_pos + FloorDiv2(parent_size)
                 ELSE parent_pos + parent_size
         IN  IF self_align = "s" THEN parent_point + offset
             ELSE IF self_align = "c" THEN parent_point - FloorDiv2(self_size) + offset
             ELSE parent_point - self_size + offset

(* Variant: the centre of the parent rounded up. *)
_align_position_ceil(self_align, parent_align, self_size, parent_size, parent_pos, offset) ==
    LET parent_point ==
            IF parent_align = "s" THEN parent_pos
            ELSE IF parent_align = "c" THEN parent_pos + FloorDiv2(parent_size + 1)
            ELSE parent_pos + parent_size
        self_pos ==
            IF self_align = "s" THEN parent_point
            ELSE IF self_align = "c" THEN parent_point - FloorDiv2(self_size)
            ELSE parent_point - self_size
    IN  self_pos + offset

_align_position(self_align, parent_align, self_size, parent_size, parent_pos, offset) ==
    LET parent_point ==
            IF parent_align = "s" THEN parent_pos
            ELSE IF parent_align = "c" THEN parent_pos + FloorDiv2(parent_size)
            ELSE parent_pos + parent_size
        self_pos ==
            IF self_align = "s" THEN parent_point
            ELSE IF self_align = "c" THEN parent_point - FloorDiv2(self_size)
            ELSE parent_point - self_size
    IN  self_pos + offset

-----------------------------------------------------------------------------
(* _resolve_position *)

Resolved(err, x, y) == [err |-> err, x |-> x, y |-> y]

(* spec.get("align", "c,c"): the default used when the anchor has no align. *)
NoAlign      == << "<none>" >>
DefaultAlign == << "c", Comma, "c" >>

_resolve_position(spec, layer_id, self_artifact, placed_now) ==
    IF spec.type = "absolute"
    THEN Resolved(NoError, spec.x, spec.y)
    ELSE IF spec.type = "relative"
    THEN IF spec.parent \notin DOMAIN placed_now
         THEN Resolved(Err("E_PARENT_NOT_PLACED", layer_id, spec.parent), 0, 0)
         ELSE
         LET p      == placed_now[spec.parent]
             align  == IF spec.align = NoAlign THEN DefaultAlign ELSE spec.align
             parsed == _parse_alignment(align)
         IN  IF parsed.err # "ok"
             THEN Resolved(Err(parsed.err, NoId, NoId), 0, 0)
             ELSE Resolved(NoError,
                           _align_position(parsed.self[1], parsed.parent[1],
                                           self_artifact.w, p.w, p.x, spec.x),
                           _align_position(parsed.self[2], parsed.parent[2],
                                           self_artifact.h, p.h, p.y, spec.y))
    ELSE Resolved(Err("E_UNKNOWN_ANCHOR", NoId, NoId), 0, 0)

-----------------------------------------------------------------------------
(* _determine_z_order *)

IsRelative(layer) == layer.anchor.type = "relative"

(* Variant: the first key of the mapping is taken as the root. *)
RootsFirstKey(layers) == IF layers = << >> THEN << >> ELSE << layers[1].id >>

(* roots: the layer ids whose spec is not a relative anchor, in mapping order *)
Roots(layers) ==
    LET keep == SelectSeq(layers, LAMBDA l : ~IsRelative(l))
    IN  [i \in 1..Len(keep) |-> keep[i].id]

(* children[parent]: the ids of the layers whose relative anchor names parent,
   in mapping order; << >> when parent is no key of children *)
Children(layers, parent) ==
    LET keep == SelectSeq(layers, LAMBDA l : IsRelative(l) /\ l.anchor.parent = parent)
    IN  [i \in 1..Len(keep) |-> keep[i].id]

(* Variant: the check for siblings is left out. *)
SiblingParentsNone(layers) == {}

(* The first key of children (in insertion order) that has several siblings. *)
SiblingParents(layers) ==
    {l.anchor.parent : l \in {x \in Range(layers) : IsRelative(x)
                                 /\ Len(Children(layers, x.anchor.parent)) > 1}}

FirstSiblingParent(layers) ==
    LET i == CHOOSE j \in 1..Len(layers) :
                 /\ IsRelative(layers[j])
                 /\ layers[j].anchor.parent \in SiblingParents(layers)
                 /\ \A m \in 1..(j - 1) :
                        ~(IsRelative(layers[m])
                          /\ layers[m].anchor.parent \in SiblingParents(layers))
    IN  layers[i].anchor.parent

(* Variant: the layers are drawn in the order of the keys of the mapping. *)
FollowChainKeyOrder(layers, current) == Ids(layers)

(* The chain walk: while current in children: append children[current][0]. *)
RECURSIVE FollowChain(_, _)
FollowChain(layers, current) ==
    IF Children(layers, current) = << >>
    THEN << current >>
    ELSE << current >> \o FollowChain(layers, Children(layers, current)[1])

ZOrder(err, order) == [err |-> err, order |-> order]

(* Variant: the chain is returned without the check that it is complete. *)
_determine_z_order_unverified(layers) ==
    LET roots == Roots(layers)
    IN  IF Len(roots) # 1
        THEN ZOrder(Err("E_ROOT_COUNT", NoId, NoId), << >>)
        ELSE IF SiblingParents(layers) # {}
        THEN ZOrder(Err("E_AMBIGUOUS_Z", NoId, FirstSiblingParent(layers)), << >>)
        ELSE ZOrder(NoError, FollowChain(layers, roots[1]))

_determine_z_order(layers) ==
    LET roots == Roots(layers)
    IN  IF Len(roots) # 1
        THEN ZOrder(Err("E_ROOT_COUNT", NoId, NoId), << >>)
        ELSE IF SiblingParents(layers) # {}
        THEN ZOrder(Err("E_AMBIGUOUS_Z", NoId, FirstSiblingParent(layers)), << >>)
        ELSE LET chain == FollowChain(layers, roots[1])
             IN  IF Len(chain) # Len(layers)
                 THEN ZOrder(Err("E_Z_INCOMPLETE", NoId, NoId), << >>)
                 ELSE ZOrder(NoError, chain)

-----------------------------------------------------------------------------
(* composite: the statements before the drawing loop (lines 27-71) *)

(* The first layer, in mapping order, whose artifact is absent from the
   manifest or is no ImageArtifact; 0 when there is none. *)
FirstBadArtifact(layers) ==
    IF \A i \in 1..Len(layers) : layers[i].image.kind = "image"
    THEN 0
    ELSE CHOOSE i \in 1..Len(layers) :
             /\ layers[i].image.kind # "image"
             /\ \A j \in 1..(i - 1) : layers[j].image.kind = "image"

Prepared(err, order, cv) == [err |-> err, order |-> order, canvas |-> cv]

NewCanvas(w, h) == [w |-> w, h |-> h, pastes |-> << >>, created |-> TRUE]

CompositePrepare(m) ==
    LET layers == m.layers
        bad    == FirstBadArtifact(layers)
    IN  IF m.layersType = "absent"
        THEN Prepared(Err("E_NO_LAYERS_KEY", NoId, NoId), << >>, NoCanvas)
        ELSE IF m.layersType # "dict"
        THEN Prepared(Err("E_LAYERS_NOT_DICT", NoId, NoId), << >>, NoCanvas)
        ELSE IF bad # 0 /\ layers[bad].image.kind = "missing"
        THEN Prepared(Err("E_LAYER_NOT_IN_MANIFEST", layers[bad].id, NoId), << >>, NoCanvas)
        ELSE IF bad # 0
        THEN Prepared(Err("E_LAYER_NOT_IMAGE", layers[bad].id, NoId), << >>, NoCanvas)
        ELSE
        LET z == _determine_z_order(layers)
        IN  IF z.err # NoError
            THEN Prepared(z.err, << >>, NoCanvas)
            ELSE IF EntryOf(layers, z.order[1]).anchor.type # "absolute"
            THEN Prepared(Err("E_ROOT_NOT_ABSOLUTE", z.order[1], NoId), << >>, NoCanvas)
            ELSE LET root_artifact == EntryOf(layers, z.order[1]).image
                 IN  Prepared(NoError, z.order,
                              NewCanvas(root_artifact.w, root_artifact.h))

-----------------------------------------------------------------------------
(* composite: one iteration of the drawing loop (lines 74-122) *)

(* canvas.paste(layer_image, (x, y), layer_image): the paste is appended to
   the pastes of the canvas; a later paste lies on top of an earlier one. *)
PasteEntry(layer_id, x, y, artifact) ==
    [id |-> layer_id, x |-> x, y |-> y, w |-> artifact.w, h |-> artifact.h]

(* Variant: the canvas grows to hold a paste that extends beyond it. *)
PasteGrowing(cv, layer_id, x, y, artifact) ==
    [cv EXCEPT !.pastes = Append(@, PasteEntry(layer_id, x, y, artifact)),
               !.w = IF x + artifact.w > @ THEN x + artifact.w ELSE @,
               !.h = IF y + artifact.h > @ THEN y + artifact.h ELSE @]

Paste(cv, layer_id, x, y, artifact) ==
    [cv EXCEPT !.pastes = Append(@, PasteEntry(layer_id, x, y, artifact))]

(* Variant: the ledger is replaced by the one entry of this layer. *)
RecordLatest(placed_now, layer_id, x, y, artifact) ==
    [id \in {layer_id} |-> [x |-> x, y |-> y, w |-> artifact.w, h |-> artifact.h]]

(* placed[layer_id] = (x, y, artifact.width, artifact.height) *)
Record(placed_now, layer_id, x, y, artifact) ==
    [id \in DOMAIN placed_now \cup {layer_id} |->
        IF id = layer_id
        THEN [x |-> x, y |-> y, w |-> artifact.w, h |-> artifact.h]
        ELSE placed_now[id]]

EmptyLedger == [id \in {} |-> 0]

-----------------------------------------------------------------------------
(* Inputs of composite *)

LayerIdSeq == << "a", "b", "c" >>
UnknownId  == "nonexistent"
ParentIds  == Range(LayerIdSeq) \cup {UnknownId}

AlignCC == << "c", Comma, "c" >>
AlignES == << "e", Comma, "s" >>
AlignAt == << "c", At, "c" >>

RelForms ==
    { [align |-> AlignCC, x |-> 0, y |-> 0],
      [align |-> AlignES, x |-> 0 - MaxOff, y |-> MaxSize + MaxOff],
      [align |-> AlignAt, x |-> 0, y |-> 0] }

Anchors ==
    {NoAnchor}
    \cup {absolute(0, 0), absolute(0 - MaxOff, MaxSize + MaxOff)}
    \cup {relative(p, f.align, f.x, f.y) : p \in ParentIds, f \in RelForms}

Artifacts == {Image(1, MaxSize), Image(MaxSize, 2), Blob, Missing}

(* A layers mapping: up to Len(LayerIdSeq) entries, keyed a, b, c in
   insertion order (a mapping has distinct keys; their names do not matter);
   f gives the anchor spec and the artifact of each entry. *)
DictLayers(n, f) == [i \in 1..n |-> Layer(LayerIdSeq[i], f[i][1], f[i][2])]

(* Layer lists as the tests and examples pass them: {"image", "anchor", "id"}. *)
ListLayers ==
    { << >>,
      << Layer("bg", NoAnchor, Image(10, 10)) >>,
      << Layer("bg", absolute(0, 0), Image(10, 10)) >>,
      << Layer("bg", NoAnchor, Image(10, 10)), Layer("content", NoAnchor, Image(5, 5)) >>,
      << Layer("bg", NoAnchor, Image(20, 20)),
         Layer("content", relative("bg", AlignAt, 0, 0), Image(10, 10)) >>,
      << Layer("bg", NoAnchor, Image(20, 20)),
         Layer("content", relative("bg", AlignCC, 0, 0), Image(10, 10)) >>,
      << Layer("bg", NoAnchor, Image(10, 10)),
         Layer("content", relative(UnknownId, AlignAt, 0, 0), Image(5, 5)) >>,
      << Layer(NoId, NoAnchor, Image(10, 10)),
         Layer("content", relative("bg", AlignAt, 0, 0), Image(5, 5)) >>,
      << Layer("background", NoAnchor, Image(20, 20)),
         Layer("shadow", relative("background", AlignAt, 0, 0), Image(12, 6)),
         Layer("text", relative("background", AlignAt, 0, 0), Image(10, 4)) >> }

Manifest(layersType, layers) == [layersType |-> layersType, layers |-> layers]

-----------------------------------------------------------------------------
(* composite as a state machine.  layersType tells what the manifest holds
   under "layers": a mapping (dict), a list, or nothing (absent; also the
   case when a list of layers is passed as the manifest itself). *)

Init ==
    /\ manifest = Manifest("absent", << >>)
    /\ pc = "idle"
    /\ z_order = << >>
    /\ canvas = NoCanvas
    /\ placed = EmptyLedger
    /\ k = 0
    /\ result = NoResult
    /\ error = NoError
    /\ layout_manifest = NoLayoutManifest
    /\ layout_pc = "idle"
    /\ layout_canvas = NoCanvas
    /\ layout_index = 0
    /\ layout_cursor = 0
    /\ layout_result = NoResult
    /\ layout_error = NoError
    /\ align_str = << >>
    /\ parse_pc = "idle"
    /\ parse_result = Parsed("none", << >>, << >>)
    /\ stream = << >>
    /\ stream_pos = 0
    /\ stream_pc = "writing"
    /\ written = << >>
    /\ decoded = << >>
    /\ intact = TRUE
    /\ scan_op = "none"
    /\ scan_manifest = << >>
    /\ scan_pc = "idle"
    /\ scan_result = [status |-> "none"]
    /\ recipe_args = [source |-> "<none>"]
    /\ recipe_pc = "idle"
    /\ recipe_result = [output |-> "<none>"]
    /\ heap = << >>
    /\ calls = << >>
    /\ given = << >>
    /\ walk_layers = << >>
    /\ walk_pc = "idle"
    /\ walk_order = << >>
    /\ walk_current = NoId
    /\ walk_error = NoError

(* composite(manifest) is invoked. *)
CompositeCall ==
    /\ pc = "idle"
    /\ \/ \E n \in 0..Len(LayerIdSeq) : \E f \in [1..n -> Anchors \X Artifacts] :
              manifest' = Manifest("dict", DictLayers(n, f))
       \/ \E l \in ListLayers : manifest' = Manifest("list", l)
       \/ manifest' = Manifest("absent", << >>)
    /\ pc' = "called"
    /\ UNCHANGED <<z_order, canvas, placed, k, result, error>>
    /\ UNCHANGED notCompositeVars

(* Lines 27-71: validation, z-order, root check, canvas creation. *)
CompositeBegin ==
    /\ pc = "called"
    /\ LET p == CompositePrepare(manifest)
       IN  IF p.err # NoError
           THEN /\ error' = p.err
                /\ pc' = "raised"
                /\ UNCHANGED <<z_order, canvas, placed, k>>
           ELSE /\ z_order' = p.order
                /\ canvas' = p.canvas
                /\ placed' = EmptyLedger
                /\ k' = 1
                /\ pc' = "loop"
                /\ UNCHANGED error
    /\ UNCHANGED <<manifest, result>>
    /\ UNCHANGED notCompositeVars

(* Lines 74-122: the layer z_order[k] is resolved, pasted and recorded. *)
CompositeLayer ==
    /\ pc = "loop"
    /\ k <= Len(z_order)
    /\ LET layer_id == z_order[k]
           layer    == EntryOf(manifest.layers, layer_id)
           r        == _resolve_position(layer.anchor, layer_id, layer.image, placed)
       IN  IF r.err # NoError
           THEN /\ error' = r.err
                /\ pc' = "raised"
                /\ UNCHANGED <<canvas, placed, k>>
           ELSE /\ canvas' = Paste(canvas, layer_id, r.x, r.y, layer.image)
                /\ placed' = Record(placed, layer_id, r.x, r.y, layer.image)
                /\ k' = k + 1
                /\ UNCHANGED <<pc, error>>
    /\ UNCHANGED <<manifest, z_order, result>>
    /\ UNCHANGED notCompositeVars

(* Line 124: return ImageArtifact(canvas). *)
CompositeReturn ==
    /\ pc = "loop"
    /\ k > Len(z_order)
    /\ result' = [kind |-> "image", w |-> canvas.w, h |-> canvas.h, pastes |-> canvas.pastes]
    /\ pc' = "returned"
    /\ UNCHANGED <<manifest, z_order, canvas, placed, k, error>>
    /\ UNCHANGED notCompositeVars

Next ==
    \/ CompositeCall
    \/ CompositeBegin
    \/ CompositeLayer
    \/ CompositeReturn

Spec == Init /\ [][Next]_vars

-----------------------------------------------------------------------------
(* layout: the statements before the placing loop (lines 30-111) *)

(* int(gap_val) on a Decimal: truncation toward zero; gap_val counts half
   pixels. *)
GapToInt(gap_val) ==
    IF gap_val >= 0 THEN gap_val \div 2 ELSE 0 - ((0 - gap_val) \div 2)

RECURSIVE SumOf(_)
SumOf(ns) == IF ns = << >> THEN 0 ELSE Head(ns) + SumOf(Tail(ns))

RECURSIVE MaxOf(_)
MaxOf(ns) ==
    IF Len(ns) = 1 THEN ns[1]
    ELSE LET m == MaxOf(Tail(ns)) IN IF Head(ns) >= m THEN Head(ns) ELSE m

Widths(artifacts)  == [i \in 1..Len(artifacts) |-> artifacts[i].w]
Heights(artifacts) == [i \in 1..Len(artifacts) |-> artifacts[i].h]

ItemIdSeq == << "item1", "item2", "item3" >>

(* Lines 44-50: the direction and align codes layout accepts. *)
DirectionOk(direction) == direction \in {"row", "column"}
LayoutAlignOk(align)   == align \in {"s", "c", "e"}

(* Lines 72-88: the first item, in list order, that has no artifact in the
   manifest or whose artifact is no ImageArtifact; 0 when there is none. *)
(* Variant: only the first item is looked at. *)
FirstBadItemHeadOnly(items) ==
    IF items # << >> /\ items[1].kind # "image" THEN 1 ELSE 0

FirstBadItem(items) ==
    IF \A i \in 1..Len(items) : items[i].kind = "image"
    THEN 0
    ELSE CHOOSE i \in 1..Len(items) :
             /\ items[i].kind # "image"
             /\ \A j \in 1..(i - 1) : items[j].kind = "image"

(* Lines 91-102: the extents of the canvas. *)
(* Variant: one gap per item instead of one gap between neighbours. *)
total_width_gap_per_item(direction, gap, artifacts) ==
    IF direction = "row"
    THEN SumOf(Widths(artifacts)) + gap * Len(artifacts)
    ELSE MaxOf(Widths(artifacts))

total_width(direction, gap, artifacts) ==
    IF direction = "row"
    THEN SumOf(Widths(artifacts)) + gap * (Len(artifacts) - 1)
    ELSE MaxOf(Widths(artifacts))

total_height(direction, gap, artifacts) ==
    IF direction = "row"
    THEN MaxOf(Heights(artifacts))
    ELSE SumOf(Heights(artifacts)) + gap * (Len(artifacts) - 1)

LayoutPrepared(err, cv) == [err |-> err, canvas |-> cv]

LayoutPrepare(m) ==
    LET gap == GapToInt(m.gap)
        bad == FirstBadItem(m.items)
    IN  IF "direction" \notin m.keys
        THEN LayoutPrepared(Err("E_KEY_DIRECTION", NoId, NoId), NoCanvas)
        ELSE IF "align" \notin m.keys
        THEN LayoutPrepared(Err("E_KEY_ALIGN", NoId, NoId), NoCanvas)
        ELSE IF "gap" \notin m.keys
        THEN LayoutPrepared(Err("E_KEY_GAP", NoId, NoId), NoCanvas)
        ELSE IF "items" \notin m.keys
        THEN LayoutPrepared(Err("E_KEY_ITEMS", NoId, NoId), NoCanvas)
        ELSE IF ~DirectionOk(m.direction)
        THEN LayoutPrepared(Err("E_DIRECTION", NoId, NoId), NoCanvas)
        ELSE IF ~LayoutAlignOk(m.align)
        THEN LayoutPrepared(Err("E_ALIGN", NoId, NoId), NoCanvas)
        ELSE IF gap < 0
        THEN LayoutPrepared(Err("E_GAP_NEGATIVE", NoId, NoId), NoCanvas)
        ELSE IF Len(m.items) = 0
        THEN LayoutPrepared(Err("E_ITEMS_EMPTY", NoId, NoId), NoCanvas)
        ELSE IF bad # 0 /\ m.items[bad].kind = "missing"
        THEN LayoutPrepared(Err("E_ITEM_NOT_IN_MANIFEST", ItemIdSeq[bad], NoId), NoCanvas)
        ELSE IF bad # 0
        THEN LayoutPrepared(Err("E_ITEM_NOT_IMAGE", ItemIdSeq[bad], NoId), NoCanvas)
        ELSE
        LET tw == total_width(m.direction, gap, m.items)
            th == total_height(m.direction, gap, m.items)
        IN  IF tw <= 0 \/ th <= 0
            THEN LayoutPrepared(Err("E_LAYOUT_DIMS", NoId, NoId), NoCanvas)
            ELSE LayoutPrepared(NoError, NewCanvas(tw, th))

-----------------------------------------------------------------------------
(* layout: one iteration of the placing loop (lines 114-148) *)

(* The cross-axis position of an item of the given cross extent. *)
(* Variant: the centre position rounded up. *)
CrossPositionCeil(align, total, extent) ==
    IF align = "s" THEN 0
    ELSE IF align = "c" THEN (total - extent + 1) \div 2
    ELSE total - extent

CrossPosition(align, total, extent) ==
    IF align = "s" THEN 0
    ELSE IF align = "c" THEN (total - extent) \div 2
    ELSE total - extent

(* Where the item is pasted: the cursor on the main axis, the aligned
   position on the cross axis. *)
ItemPosition(direction, align, cv, cursor, artifact) ==
    IF direction = "row"
    THEN [x |-> cursor, y |-> CrossPosition(align, cv.h, artifact.h)]
    ELSE [x |-> CrossPosition(align, cv.w, artifact.w), y |-> cursor]

(* Variant: the cursor advances by the width in either direction. *)
AdvanceByWidth(direction, cursor, artifact, gap) == cursor + artifact.w + gap

(* x += artifact.width + gap, or y += artifact.height + gap *)
Advance(direction, cursor, artifact, gap) ==
    IF direction = "row" THEN cursor + artifact.w + gap
    ELSE cursor + artifact.h + gap

-----------------------------------------------------------------------------
(* Inputs of layout *)

Directions   == {"row", "column", "diagonal"}
LayoutAligns == {"s", "c", "e", "x"}

(* Decimal gaps in half pixels: -1, -0.5, 0, 0.5, 1 .. MaxGap *)
GapValues == {0 - 2, 0 - 1, 0, 1} \cup {2 * g : g \in 1..MaxGap}

ItemArtifacts ==
    {Image(w, h) : w \in 0..MaxDim, h \in {1, MaxDim}} \cup {Blob, Missing}

(* The three blocks of the content-flow example: 20x30, 20x20, 20x10. *)
ExampleItems == << Image(20, 30), Image(20, 20), Image(20, 10) >>
ExampleGap   == 10

-----------------------------------------------------------------------------
(* layout as a state machine *)

(* layout(manifest) is invoked. *)
LayoutCall ==
    /\ layout_pc = "idle"
    /\ \/ \E d \in Directions, al \in LayoutAligns, g \in GapValues :
          \E n \in 0..Len(ItemIdSeq) : \E f \in [1..n -> ItemArtifacts] :
              layout_manifest' = LayoutManifest(LayoutKeys, d, al, g, f)
       \/ \E d \in {"row", "column"}, al \in {"s", "c", "e"} :
              layout_manifest' = LayoutManifest(LayoutKeys, d, al, ExampleGap, ExampleItems)
       \/ \E key \in LayoutKeys :
              layout_manifest' =
                  LayoutManifest(LayoutKeys \ {key}, "row", "c", 0, << Image(1, 1) >>)
    /\ layout_pc' = "called"
    /\ UNCHANGED <<layout_canvas, layout_index, layout_cursor, layout_result, layout_error>>
    /\ UNCHANGED notLayoutVars

(* Lines 30-111: validation, canvas extents, canvas creation. *)
LayoutBegin ==
    /\ layout_pc = "called"
    /\ LET p == LayoutPrepare(layout_manifest)
       IN  IF p.err # NoError
           THEN /\ layout_error' = p.err
                /\ layout_pc' = "raised"
                /\ UNCHANGED <<layout_canvas, layout_index, layout_cursor>>
           ELSE /\ layout_canvas' = p.canvas
                /\ layout_index' = 1
                /\ layout_cursor' = 0
                /\ layout_pc' = "loop"
                /\ UNCHANGED layout_error
    /\ UNCHANGED <<layout_manifest, layout_result>>
    /\ UNCHANGED notLayoutVars

(* Lines 114-148: the item layout_index is positioned and pasted. *)
LayoutPlace ==
    /\ layout_pc = "loop"
    /\ layout_index <= Len(layout_manifest.items)
    /\ LET m        == layout_manifest
           artifact == m.items[layout_index]
           at       == ItemPosition(m.direction, m.align, layout_canvas,
                                    layout_cursor, artifact)
       IN  /\ layout_canvas' =
                  Paste(layout_canvas, ItemIdSeq[layout_index], at.x, at.y, artifact)
           /\ layout_cursor' =
                  Advance(m.direction, layout_cursor, artifact, GapToInt(m.gap))
    /\ layout_index' = layout_index + 1
    /\ UNCHANGED <<layout_manifest, layout_pc, layout_result, layout_error>>
    /\ UNCHANGED notLayoutVars

(* Line 150: return ImageArtifact(canvas). *)
LayoutReturn ==
    /\ layout_pc = "loop"
    /\ layout_index > Len(layout_manifest.items)
    /\ layout_result' = [kind |-> "image", w |-> layout_canvas.w, h |-> layout_canvas.h,
                         pastes |-> layout_canvas.pastes]
    /\ layout_pc' = "returned"
    /\ UNCHANGED <<layout_manifest, layout_canvas, layout_index, layout_cursor, layout_error>>
    /\ UNCHANGED notLayoutVars

NextLayout ==
    \/ LayoutCall
    \/ LayoutBegin
    \/ LayoutPlace
    \/ LayoutReturn

SpecLayout == Init /\ [][NextLayout]_vars

-----------------------------------------------------------------------------
(* _parse_alignment as a state machine *)

AlignAlphabet == {"s", "c", "e", "x", Comma, At, Space}

(* _parse_alignment(align_str) is invoked. *)
ParseCall ==
    /\ parse_pc = "idle"
    /\ \E n \in 0..MaxAlignLen : \E str \in [1..n -> AlignAlphabet] : align_str' = str
    /\ parse_pc' = "called"
    /\ UNCHANGED parse_result
    /\ UNCHANGED notParseVars

(* It returns (self_align, parent_align) or raises. *)
ParseReturn ==
    /\ parse_pc = "called"
    /\ parse_result' = _parse_alignment(align_str)
    /\ parse_pc' = IF parse_result'.err = "ok" THEN "returned" ELSE "raised"
    /\ UNCHANGED align_str
    /\ UNCHANGED notParseVars

NextParse ==
    \/ ParseCall
    \/ ParseReturn

SpecParse == Init /\ [][NextParse]_vars

-----------------------------------------------------------------------------
(* composite on two-layer chains: a root and one layer anchored to it *)

AxisValues ==
    { [self |-> s1, parent |-> s2, origin |-> o, offset |-> d] :
        s1 \in 0..MaxSize, s2 \in 0..MaxSize,
        o \in {0 - MaxOff, 0, MaxOff}, d \in {0 - MaxOff, 0, MaxOff} }

AxisSamples ==
    { [self |-> 1, parent |-> MaxSize, origin |-> MaxOff, offset |-> 0 - 1],
      [self |-> MaxSize + 1, parent |-> 2, origin |-> 0 - 1, offset |-> MaxOff] }

AlignPairs ==
    {<< << a, b >>, << c, d >> >> : a \in AlignCodes, b \in AlignCodes,
                                    c \in AlignCodes, d \in AlignCodes}
    \cup {<< << a >>, << c >> >> : a \in AlignCodes, c \in AlignCodes}

ChainLayers(al, ax, ay) ==
    << Layer("a", absolute(ax.origin, ay.origin), Image(ax.parent, ay.parent)),
       Layer("b", relative("a", al[1] \o << Comma >> \o al[2], ax.offset, ay.offset),
             Image(ax.self, ay.self)) >>

(* composite(manifest) is invoked on a two-layer chain. *)
CompositeCallChain ==
    /\ pc = "idle"
    /\ \E al \in AlignPairs :
          \/ \E ax \in AxisValues, ay \in AxisSamples :
                 manifest' = Manifest("dict", ChainLayers(al, ax, ay))
          \/ \E ax \in AxisSamples, ay \in AxisValues :
                 manifest' = Manifest("dict", ChainLayers(al, ax, ay))
    /\ pc' = "called"
    /\ UNCHANGED <<z_order, canvas, placed, k, result, error>>
    /\ UNCHANGED notCompositeVars

NextAlign ==
    \/ CompositeCallChain
    \/ CompositeBegin
    \/ CompositeLayer
    \/ CompositeReturn

SpecAlign == Init /\ [][NextAlign]_vars

-----------------------------------------------------------------------------
(* The layer-list contract the claims speak of *)

Done == pc \in {"returned", "raised"}

AlignSides == {<< a >> : a \in AlignCodes} \cup {<< a, b >> : a, b \in AlignCodes}

(* The grammar "<self>@<parent>", each side 1 or 2 characters of s, c, e. *)
AtGrammar(str) ==
    \E l \in AlignSides, r \in AlignSides : str = l \o << At >> \o r

(* The ids of the layers listed before position i. *)
EarlierIds(layers, i) == {layers[j].id : j \in 1..(i - 1)} \ {NoId}

(* Structurally valid list: non-empty, the first layer without anchor, every
   later layer with an anchor, every artifact a raster artifact. *)
StructurallyValid(layers) ==
    /\ Len(layers) >= 1
    /\ layers[1].anchor = NoAnchor
    /\ \A i \in 2..Len(layers) : layers[i].anchor.type \in {"absolute", "relative"}
    /\ \A i \in 1..Len(layers) : layers[i].image.kind = "image"

(* Valid list: structurally valid, every relative anchor well-formed and
   naming the id of a layer listed before it. *)
ValidList(layers) ==
    /\ StructurallyValid(layers)
    /\ \A i \in 2..Len(layers) :
           layers[i].anchor.type = "relative" =>
               /\ layers[i].anchor.parent \in EarlierIds(layers, i)
               /\ AtGrammar(layers[i].anchor.align)

PasteIds(pastes) == [i \in 1..Len(pastes) |-> pastes[i].id]

-----------------------------------------------------------------------------
(* C1: every valid layer list is accepted and its layers are pasted in
   exactly the order of the list (root first, last element on top), also
   when several layers name the same parent. *)
C1_DrawOrderIsListOrder ==
    (Done /\ ValidList(manifest.layers)) =>
        /\ pc = "returned"
        /\ PasteIds(result.pastes) = Ids(manifest.layers)

RootArtifact == EntryOf(manifest.layers, z_order[1]).image

(* C2: on success the returned canvas has exactly the extents of the root
   layer's artifact (the root is the first layer drawn, z_order[1]); while
   the layers are drawn the canvas keeps these extents. *)
C2_CanvasIsRootSize ==
    /\ pc = "loop" => (canvas.w = RootArtifact.w /\ canvas.h = RootArtifact.h)
    /\ pc = "returned" =>
           /\ result.w = RootArtifact.w /\ result.h = RootArtifact.h
           /\ result.pastes # << >> /\ result.pastes[1].id = z_order[1]

(* A paste that lies wholly outside the canvas. *)
Outside(p, cv) ==
    \/ p.x + p.w <= 0 \/ p.x >= cv.w
    \/ p.y + p.h <= 0 \/ p.y >= cv.h

(* A paste that extends beyond the canvas on some side. *)
Overhangs(p, cv) ==
    \/ p.x < 0 \/ p.x + p.w > cv.w
    \/ p.y < 0 \/ p.y + p.h > cv.h

C2_Witness ==
    /\ pc = "returned"
    /\ \E i \in 2..Len(result.pastes) : Outside(result.pastes[i], result)
    /\ \E i \in 2..Len(result.pastes) :
           /\ ~Outside(result.pastes[i], result)
           /\ Overhangs(result.pastes[i], result)
           /\ result.pastes[i].w > result.w

DanglingAt(layers, i) ==
    /\ IsRelative(layers[i])
    /\ layers[i].anchor.parent \notin EarlierIds(layers, i)

(* C4: in an otherwise valid list, the first layer whose relative anchor
   names a parent id that no earlier layer carries makes composite fail with
   the missing-parent error naming that layer and that parent. *)
C4_MissingParentError ==
    \A i \in 2..Len(manifest.layers) :
        ( /\ Done
          /\ StructurallyValid(manifest.layers)
          /\ ValidList(SubSeq(manifest.layers, 1, i - 1))
          /\ DanglingAt(manifest.layers, i) )
        => ( /\ pc = "raised"
             /\ error = Err("E_PARENT_NOT_PLACED", manifest.layers[i].id,
                            manifest.layers[i].anchor.parent) )

(* C6: composite returns no artifact for an empty layer list, for a first
   layer that carries an anchor, and for a later layer without an anchor. *)
C6_RejectsMalformedLists ==
    pc = "returned" =>
        /\ manifest.layers # << >>
        /\ manifest.layers[1].anchor = NoAnchor
        /\ \A i \in 2..Len(manifest.layers) : manifest.layers[i].anchor # NoAnchor

(* C7: in a valid list, every non-root layer with an absolute anchor is
   accepted and placed at exactly its (x, y), which the ledger records. *)
C7_AbsoluteNonRootPlaced ==
    ( /\ Done
      /\ ValidList(manifest.layers)
      /\ \E i \in 2..Len(manifest.layers) : manifest.layers[i].anchor.type = "absolute" )
    => ( /\ pc = "returned"
         /\ \A i \in 2..Len(manifest.layers) :
                LET l == manifest.layers[i]
                IN  l.anchor.type = "absolute" =>
                        /\ l.id \in DOMAIN placed
                        /\ placed[l.id].x = l.anchor.x
                        /\ placed[l.id].y = l.anchor.y )

-----------------------------------------------------------------------------
ParentPoint(code, origin, size) ==
    CASE code = "s" -> origin
      [] code = "c" -> origin + (size \div 2)
      [] code = "e" -> origin + size

SelfOffset(code, size) ==
    CASE code = "s" -> 0
      [] code = "c" -> size \div 2
      [] code = "e" -> size

(* The (self, parent) sides an alignment string of the chains is made of. *)
SidesOf(str) == CHOOSE al \in AlignPairs : al[1] \o << Comma >> \o al[2] = str

AxisCode(side, axis) == IF Len(side) = 1 THEN side[1] ELSE side[axis]

(* C3: for a relative anchor the resolved coordinate on each axis is
   P - S + offset, P the parent's origin, origin + size div 2 or
   origin + size, S zero, selfSize div 2 or selfSize, by the alignment codes
   of that axis; x from widths and x-values only, y from heights and
   y-values only. *)
C3_RelativeCoordinate ==
    /\ Done => pc = "returned"
    /\ "b" \in DOMAIN placed =>
           LET self   == EntryOf(manifest.layers, "b")
               sides  == SidesOf(self.anchor.align)
               parent == placed["a"]
           IN  /\ placed["b"].x =
                      ParentPoint(AxisCode(sides[2], 1), parent.x, parent.w)
                      - SelfOffset(AxisCode(sides[1], 1), self.image.w)
                      + self.anchor.x
               /\ placed["b"].y =
                      ParentPoint(AxisCode(sides[2], 2), parent.y, parent.h)
                      - SelfOffset(AxisCode(sides[1], 2), self.image.h)
                      + self.anchor.y

C3_Witness ==
    /\ pc = "returned"
    /\ "b" \in DOMAIN placed
    /\ LET self == EntryOf(manifest.layers, "b")
       IN  /\ self.anchor.align = << "c", "e", Comma, "e", "c" >>
           /\ self.image.w = 3 /\ self.image.h # 3
           /\ placed["a"].w = 1
           /\ placed["a"].x < 0
           /\ self.anchor.x < 0

-----------------------------------------------------------------------------
ParseDone == parse_pc \in {"returned", "raised"}

BothAxes(side) == IF Len(side) = 1 THEN << side[1], side[1] >> ELSE side

(* C5: _parse_alignment accepts exactly the strings "<self>@<parent>" with
   sides of 1 or 2 characters of s, c, e; an accepted one-character side
   stands for both axes, a two-character side is (horizontal, vertical);
   a comma-separated string is rejected with the error that names the
   required '@' separator. *)
C5_AtGrammarOnly ==
    ParseDone =>
        /\ (parse_pc = "returned") <=> AtGrammar(align_str)
        /\ \A l \in AlignSides, r \in AlignSides :
               align_str = l \o << At >> \o r =>
                   /\ parse_result.self = BothAxes(l)
                   /\ parse_result.parent = BothAxes(r)
        /\ (\E l \in AlignSides, r \in AlignSides : align_str = l \o << Comma >> \o r) =>
               parse_result.err = "E_ALIGN_AT_SEPARATOR"

-----------------------------------------------------------------------------
(* The layout contract the claims speak of *)

LayoutDone == layout_pc \in {"returned", "raised"}

MainExtent(direction, a)  == IF direction = "row" THEN a.w ELSE a.h
CrossExtent(direction, a) == IF direction = "row" THEN a.h ELSE a.w

(* The sum of the main-axis extents of the first n items. *)
RECURSIVE MainSum(_, _, _)
MainSum(direction, items, n) ==
    IF n = 0 THEN 0
    ELSE MainSum(direction, items, n - 1) + MainExtent(direction, items[n])

(* The gap is a whole number of pixels. *)
IntegralGap(m) == m.gap % 2 = 0
GapPixels(m)   == m.gap \div 2

IsMaxCross(direction, items, v) ==
    /\ \E i \in 1..Len(items) : CrossExtent(direction, items[i]) = v
    /\ \A i \in 1..Len(items) : CrossExtent(direction, items[i]) <= v

WellFormedLayout(m) ==
    /\ m.keys = LayoutKeys
    /\ m.direction \in {"row", "column"}
    /\ m.align \in {"s", "c", "e"}
    /\ IntegralGap(m) /\ m.gap >= 0
    /\ m.items # << >>
    /\ \A i \in 1..Len(m.items) : m.items[i].kind = "image"

(* C8: for a non-empty item list and an integer gap >= 0 the output has
   main-axis extent = sum of the items' main extents + gap * (count - 1)
   and cross-axis extent = the largest item cross extent, main being the
   width for "row" and the height for "column"; a single item yields its
   own size; items of positive extents always yield an output. *)
C8_OutputExtents ==
    /\ (layout_pc = "returned" /\ IntegralGap(layout_manifest)) =>
           LET m     == layout_manifest
               n     == Len(m.items)
               main  == MainExtent(m.direction, layout_result)
               cross == CrossExtent(m.direction, layout_result)
           IN  /\ WellFormedLayout(m)
               /\ main = MainSum(m.direction, m.items, n) + GapPixels(m) * (n - 1)
               /\ IsMaxCross(m.direction, m.items, cross)
               /\ n = 1 => (layout_result.w = m.items[1].w /\ layout_result.h = m.items[1].h)
    /\ ( /\ LayoutDone
         /\ WellFormedLayout(layout_manifest)
         /\ \A i \in 1..Len(layout_manifest.items) :
                layout_manifest.items[i].w >= 1 /\ layout_manifest.items[i].h >= 1 )
       => layout_pc = "returned"

C8_Witness ==
    /\ layout_pc = "returned"
    /\ layout_manifest.direction = "column"
    /\ layout_manifest.gap = 4
    /\ Len(layout_manifest.items) = 3
    /\ layout_manifest.items[1].w # layout_manifest.items[2].w
    /\ layout_manifest.items[1].h # layout_manifest.items[3].h

MainPos(direction, p)  == IF direction = "row" THEN p.x ELSE p.y
CrossPos(direction, p) == IF direction = "row" THEN p.y ELSE p.x

IsFloorOfHalf(q, d) == 2 * q <= d /\ d < 2 * q + 2

ExampleRowCenter == LayoutManifest(LayoutKeys, "row", "c", ExampleGap, ExampleItems)

(* C9: item i is pasted at main position = sum of the main extents of the
   items before it + (i - 1) * gap, and at cross position 0 (start),
   floor((crossExtent - itemCrossExtent) / 2) (center) or
   crossExtent - itemCrossExtent (end); the row example 20x30, 20x20, 20x10
   with gap 5 and center puts the items at x = 0, 25, 50 and y = 0, 5, 10
   in a 70x30 canvas. *)
C9_ItemPlacement ==
    /\ (layout_pc \in {"loop", "returned"} /\ IntegralGap(layout_manifest)) =>
           LET m  == layout_manifest
               cv == layout_canvas
               C  == CrossExtent(m.direction, cv)
           IN  /\ Len(cv.pastes) = (IF layout_pc = "returned" THEN Len(m.items)
                                    ELSE layout_index - 1)
               /\ \A i \in 1..Len(cv.pastes) :
                      LET p == cv.pastes[i]
                          c == CrossExtent(m.direction, m.items[i])
                      IN  /\ p.id = ItemIdSeq[i]
                          /\ p.w = m.items[i].w /\ p.h = m.items[i].h
                          /\ MainPos(m.direction, p) =
                                 MainSum(m.direction, m.items, i - 1)
                                 + (i - 1) * GapPixels(m)
                          /\ m.align = "s" => CrossPos(m.direction, p) = 0
                          /\ m.align = "c" =>
                                 IsFloorOfHalf(CrossPos(m.direction, p), C - c)
                          /\ m.align = "e" => CrossPos(m.direction, p) = C - c
    /\ (layout_pc = "returned" /\ layout_manifest = ExampleRowCenter) =>
           /\ layout_result.w = 70 /\ layout_result.h = 30
           /\ [i \in 1..3 |-> << layout_result.pastes[i].x, layout_result.pastes[i].y >>]
                  = << << 0, 0 >>, << 25, 5 >>, << 50, 10 >> >>

C9_Witness ==
    /\ layout_pc = "returned"
    /\ layout_manifest = ExampleRowCenter
    /\ Len(layout_result.pastes) = 3

LayoutDefect(m) ==
    \/ m.direction \notin {"row", "column"}
    \/ m.align \notin {"s", "c", "e"}
    \/ (IntegralGap(m) /\ m.gap < 0)
    \/ m.items = << >>
    \/ \E i \in 1..Len(m.items) : m.items[i].kind = "missing"
    \/ \E i \in 1..Len(m.items) : m.items[i].kind = "blob"

(* C10: layout fails and returns no artifact for a direction other than
   row/column, an alignment code other than s/c/e, a negative gap, an empty
   item list, an item without artifact and an item whose artifact is no
   raster artifact; no canvas exists and nothing is pasted when it fails,
   and none of these defects is left once the canvas exists. *)
C10_LayoutRejects ==
    /\ (LayoutDone /\ LayoutDefect(layout_manifest)) => layout_pc = "raised"
    /\ layout_pc = "raised" =>
           /\ layout_error # NoError
           /\ layout_result = NoResult
           /\ layout_canvas = NoCanvas
    /\ (layout_canvas.created \/ layout_canvas.pastes # << >>) =>
           ~LayoutDefect(layout_manifest)

C10_Witness ==
    /\ layout_pc = "raised"
    /\ layout_error.code = "E_ITEM_NOT_IMAGE"
    /\ Len(layout_manifest.items) = 3
    /\ layout_manifest.items[1].kind = "image"
    /\ layout_manifest.items[1].w >= 1
    /\ layout_manifest.items[2].kind = "image"
    /\ layout_manifest.items[3].kind = "blob"
    /\ layout_canvas = NoCanvas

-----------------------------------------------------------------------------
(* artifacts.py: the persisted form of the two artifact kinds.

   A stream is a sequence of bytes (0..255) with a read position.  read(n)
   returns the bytes that are there, fewer than n at the end of the stream,
   and never raises.  Media types are sequences of characters; "a" stands
   for a one-byte character and "é" for a two-byte one.  The PNG codec of
   the imaging library is the pair _to_canonical_png / PngDecode: a
   signature, the two extents, four channel bytes per pixel and an end
   marker; it encodes losslessly and rejects everything that is not a
   complete encoding.  sha256 is collision free. *)

RECURSIVE ToBytes(_, _)
ToBytes(n, len) ==
    IF len = 0 THEN << >> ELSE Append(ToBytes(n \div 256, len - 1), n % 256)

RECURSIVE FromBytes(_)
FromBytes(bytes) ==
    IF bytes = << >> THEN 0
    ELSE FromBytes(SubSeq(bytes, 1, Len(bytes) - 1)) * 256 + bytes[Len(bytes)]

(* stream.read(n) at position pos: the bytes and the position afterwards *)
StreamRead(bytes, pos, n) ==
    LET upto == IF pos + n <= Len(bytes) THEN pos + n ELSE Len(bytes)
    IN  [bytes |-> SubSeq(bytes, pos + 1, upto), pos |-> upto]

CharBytes(c) == IF c = "a" THEN << 97 >> ELSE << 195, 169 >>

RECURSIVE Utf8Encode(_)
Utf8Encode(str) ==
    IF str = << >> THEN << >> ELSE CharBytes(Head(str)) \o Utf8Encode(Tail(str))

Utf8Result(ok, str) == [ok |-> ok, str |-> str]

(* bytes.decode("utf-8"): strict, an incomplete or unknown sequence raises *)
RECURSIVE Utf8Decode(_)
Utf8Decode(bytes) ==
    IF bytes = << >> THEN Utf8Result(TRUE, << >>)
    ELSE IF bytes[1] = 97
         THEN LET rest == Utf8Decode(Tail(bytes))
              IN  Utf8Result(rest.ok, << "a" >> \o rest.str)
    ELSE IF Len(bytes) >= 2 /\ bytes[1] = 195 /\ bytes[2] = 169
         THEN LET rest == Utf8Decode(SubSeq(bytes, 3, Len(bytes)))
              IN  Utf8Result(rest.ok, << "é" >> \o rest.str)
    ELSE Utf8Result(FALSE, << >>)

ImageArtifact(w, h, px) ==
    [kind |-> "image", mode |-> "RGBA", w |-> w, h |-> h, px |-> px]

BlobArtifact(data, content_type) ==
    [kind |-> "blob", data |-> data, content_type |-> content_type]

PngSignature == << 137, 80 >>
PngEnd == << 174 >>

RECURSIVE Flatten(_)
Flatten(px) == IF px = << >> THEN << >> ELSE Head(px) \o Flatten(Tail(px))

RECURSIVE Unflatten(_)
Unflatten(bytes) ==
    IF Len(bytes) < 4 THEN << >>
    ELSE << SubSeq(bytes, 1, 4) >> \o Unflatten(SubSeq(bytes, 5, Len(bytes)))

_to_canonical_png(a) == PngSignature \o << a.w, a.h >> \o Flatten(a.px) \o PngEnd

DecodeResult(status, artifact, pos) ==
    [status |-> status, artifact |-> artifact, pos |-> pos]

NoArtifact == [kind |-> "none"]

(* Variant: the two extents are read in the other order *)
PngDecodeTransposed(bytes) ==
    LET n == Len(bytes)
        wellFormed ==
            /\ n >= 5
            /\ SubSeq(bytes, 1, 2) = PngSignature
            /\ SubSeq(bytes, n, n) = PngEnd
            /\ n = 5 + 4 * bytes[3] * bytes[4]
    IN  IF wellFormed
        THEN [ok |-> TRUE,
              image |-> ImageArtifact(bytes[4], bytes[3],
                                      Unflatten(SubSeq(bytes, 5, n - 1)))]
        ELSE [ok |-> FALSE, image |-> NoArtifact]

(* Image.open(BytesIO(png_bytes)).convert("RGBA") *)
PngDecode(bytes) ==
    LET n == Len(bytes)
        wellFormed ==
            /\ n >= 5
            /\ SubSeq(bytes, 1, 2) = PngSignature
            /\ SubSeq(bytes, n, n) = PngEnd
            /\ n = 5 + 4 * bytes[3] * bytes[4]
    IN  IF wellFormed
        THEN [ok |-> TRUE,
              image |-> ImageArtifact(bytes[3], bytes[4],
                                      Unflatten(SubSeq(bytes, 5, n - 1)))]
        ELSE [ok |-> FALSE, image |-> NoArtifact]

sha256(bytes) == << "sha256", bytes >>

ImageHash(a) == sha256(_to_canonical_png(a))

BlobHash(a) == sha256(a.data)

get_stable_hash(a) == IF a.kind = "image" THEN ImageHash(a) ELSE BlobHash(a)

ImageToStream(a) ==
    LET png_bytes == _to_canonical_png(a)
    IN  ToBytes(Len(png_bytes), 8) \o png_bytes

ImageFromStream(bytes, pos) ==
    LET head == StreamRead(bytes, pos, 8)
        length == FromBytes(head.bytes)
        body == StreamRead(bytes, head.pos, length)
        d == PngDecode(body.bytes)
    IN  IF d.ok THEN DecodeResult("ok", d.image, body.pos)
        ELSE DecodeResult("E_PNG", NoArtifact, body.pos)

(* Variant: the media type is counted in characters *)
BlobToStreamCharCount(a) ==
    LET content_type_bytes == Utf8Encode(a.content_type)
    IN  ToBytes(Len(a.content_type), 8) \o content_type_bytes
            \o ToBytes(Len(a.data), 8) \o a.data

BlobToStream(a) ==
    LET content_type_bytes == Utf8Encode(a.content_type)
    IN  ToBytes(Len(content_type_bytes), 8) \o content_type_bytes
            \o ToBytes(Len(a.data), 8) \o a.data

BlobFromStream(bytes, pos) ==
    LET head1 == StreamRead(bytes, pos, 8)
        content_type_len == FromBytes(head1.bytes)
        raw == StreamRead(bytes, head1.pos, content_type_len)
        content_type == Utf8Decode(raw.bytes)
        head2 == StreamRead(bytes, raw.pos, 8)
        data_len == FromBytes(head2.bytes)
        data == StreamRead(bytes, head2.pos, data_len)
    IN  IF ~content_type.ok THEN DecodeResult("E_UTF8", NoArtifact, raw.pos)
        ELSE DecodeResult("ok", BlobArtifact(data.bytes, content_type.str), data.pos)

to_stream(a) == IF a.kind = "image" THEN ImageToStream(a) ELSE BlobToStream(a)

from_stream(kind, bytes, pos) ==
    IF kind = "image" THEN ImageFromStream(bytes, pos) ELSE BlobFromStream(bytes, pos)

(* Inputs *)
Transparent == << 0, 0, 0, 0 >>
TestPixel == << 128, 64, 32, 200 >>

Solid(w, h, p) == ImageArtifact(w, h, [i \in 1..(w * h) |-> p])

Marked(w, h) ==
    ImageArtifact(w, h, [i \in 1..(w * h) |-> IF i = 1 THEN TestPixel ELSE Transparent])

StreamImages ==
    UNION { { Solid(w, h, Transparent), Solid(w, h, TestPixel), Marked(w, h) } :
            w \in 1..MaxPix, h \in 1..MaxPix }

ContentTypes == { << >>, << "a" >>, << "é" >>, << "é", "a" >> }

PayloadBytes == { 0, 255 }

(* the persisted stream as a state machine: artifacts are written
   back-to-back, the stream is rewound (or cut short and rewound), and the
   artifacts are read back by the class that wrote them *)

StreamWrite ==
    /\ stream_pc = "writing"
    /\ Len(written) < MaxWritten
    /\ \/ \E a \in StreamImages :
            /\ stream' = stream \o to_stream(a)
            /\ written' = Append(written, a)
       \/ \E n \in 0..MaxBytes : \E data \in [1..n -> PayloadBytes] :
          \E content_type \in ContentTypes :
            LET a == BlobArtifact(data, content_type)
            IN  /\ stream' = stream \o to_stream(a)
                /\ written' = Append(written, a)
    /\ UNCHANGED <<stream_pos, stream_pc, decoded, intact>>
    /\ UNCHANGED notStreamVars

StreamSeek ==
    /\ stream_pc = "writing"
    /\ written # << >>
    /\ stream_pc' = "reading"
    /\ stream_pos' = 0
    /\ UNCHANGED <<stream, written, decoded, intact>>
    /\ UNCHANGED notStreamVars

StreamCut ==
    /\ stream_pc = "writing"
    /\ written # << >>
    /\ \E n \in 0..(Len(stream) - 1) : stream' = SubSeq(stream, 1, n)
    /\ intact' = FALSE
    /\ stream_pc' = "reading"
    /\ stream_pos' = 0
    /\ UNCHANGED <<written, decoded>>
    /\ UNCHANGED notStreamVars

StreamDecode ==
    /\ stream_pc = "reading"
    /\ Len(decoded) < Len(written)
    /\ \A i \in 1..Len(decoded) : decoded[i].status = "ok"
    /\ LET r == from_stream(written[Len(decoded) + 1].kind, stream, stream_pos)
       IN  /\ decoded' = Append(decoded, r)
           /\ stream_pos' = r.pos
    /\ UNCHANGED <<stream, stream_pc, written, intact>>
    /\ UNCHANGED notStreamVars

NextStream ==
    \/ StreamWrite
    \/ StreamSeek
    \/ StreamCut
    \/ StreamDecode

SpecStream == Init /\ [][NextStream]_vars

-----------------------------------------------------------------------------
(* Claims about the persisted form *)

(* where the encoding of the i-th written artifact starts in the stream *)
RECURSIVE Offset(_)
Offset(i) == IF i <= 1 THEN 0 ELSE Offset(i - 1) + Len(to_stream(written[i - 1]))

(* the stream holds fewer bytes than the i-th written artifact needs *)
CutShort(i) == Offset(i + 1) > Len(stream)

(* C11: encoding an artifact and decoding it back is an exact round trip:
   the decoded image has the same extents, the RGBA format, the same
   canonical bytes and the same hash; the decoded blob has the same payload,
   the same media type and the same hash. *)
C11_RoundTrip ==
    \A i \in 1..Len(decoded) :
        intact =>
            LET a == written[i]
                r == decoded[i]
            IN  /\ r.status = "ok"
                /\ r.artifact.kind = a.kind
                /\ get_stable_hash(r.artifact) = get_stable_hash(a)
                /\ a.kind = "image" =>
                       /\ r.artifact.w = a.w
                       /\ r.artifact.h = a.h
                       /\ r.artifact.mode = "RGBA"
                       /\ _to_canonical_png(r.artifact) = _to_canonical_png(a)
                /\ a.kind = "blob" =>
                       /\ r.artifact.data = a.data
                       /\ r.artifact.content_type = a.content_type

C11_Witness ==
    /\ intact
    /\ Len(decoded) = 2
    /\ written[1] = Marked(1, 2)
    /\ written[2] = BlobArtifact(<< 0, 255 >>, << "é", "a" >>)
    /\ decoded[1].artifact = written[1]
    /\ decoded[2].artifact = written[2]

(* C12: from_stream raises and returns no artifact whenever the stream
   holds fewer bytes than the artifact being decoded was written with. *)
C12_TruncatedStreamRaises ==
    \A i \in 1..Len(decoded) :
        (~intact /\ CutShort(i)) =>
            /\ decoded[i].status # "ok"
            /\ decoded[i].artifact = NoArtifact

(* the bytes b are the 8-byte big-endian form of n *)
IsBigEndian8(b, n) ==
    /\ Len(b) = 8
    /\ \A j \in 1..6 : b[j] = 0
    /\ b[7] = (n \div 256) % 256
    /\ b[8] = n % 256

Slice(from, len) == SubSeq(stream, from + 1, from + len)

(* the i-th written artifact lies in the stream in its persisted form *)
PersistedAt(i) ==
    LET a == written[i]
        o == Offset(i)
    IN  IF a.kind = "image"
        THEN LET png == _to_canonical_png(a)
             IN  /\ IsBigEndian8(Slice(o, 8), Len(png))
                 /\ Slice(o + 8, Len(png)) = png
                 /\ Offset(i + 1) = o + 8 + Len(png)
        ELSE LET media == Utf8Encode(a.content_type)
             IN  /\ IsBigEndian8(Slice(o, 8), Len(media))
                 /\ Slice(o + 8, Len(media)) = media
                 /\ IsBigEndian8(Slice(o + 8 + Len(media), 8), Len(a.data))
                 /\ Slice(o + 16 + Len(media), Len(a.data)) = a.data
                 /\ Offset(i + 1) = o + 16 + Len(media) + Len(a.data)

(* C13: the stream is exactly the length-prefixed forms of the written
   artifacts, back to back; decoding the i-th artifact consumes exactly the
   bytes it was written with and returns the artifact written, so that all
   artifacts are read back in order and the stream is left at its end. *)
C13_LengthPrefixedForm ==
    intact =>
        /\ Len(stream) = Offset(Len(written) + 1)
        /\ \A i \in 1..Len(written) : PersistedAt(i)
        /\ stream_pc = "reading" => stream_pos = Offset(Len(decoded) + 1)
        /\ \A i \in 1..Len(decoded) :
               decoded[i].status = "ok" /\ decoded[i].artifact = written[i]
        /\ (stream_pc = "reading" /\ Len(decoded) = Len(written)) =>
               stream_pos = Len(stream)

C13_Witness ==
    /\ intact
    /\ stream_pc = "reading"
    /\ Len(written) = 2
    /\ Len(decoded) = 2
    /\ written[1].kind = "blob"
    /\ written[1].content_type = << "é" >>
    /\ written[1].data # << >>
    /\ written[2].kind = "image"
    /\ stream_pos = Len(stream)

-----------------------------------------------------------------------------
(* ops/resize.py, ops/blob_to_image.py, ops/render_svg.py: the operations
   that find their one upstream artifact by its type.

   A manifest is the sequence of its (key, value) entries in iteration
   order; the keys are distinct.  A value is an artifact or a scalar.  The
   decoders behind blob_to_image and render_svg belong to other libraries:
   Image.open is PngDecode, and svg2png renders what starts with "<". *)

Entry(key, value) == [key |-> key, value |-> value]

Scalar(n) == [kind |-> "scalar", value |-> n]

Outcome(status, exception, used, w, h) ==
    [status |-> status, exception |-> exception, used |-> used, w |-> w, h |-> h]

Raised(status, exception) == Outcome(status, exception, NoArtifact, 0, 0)

HasKey(m, key) == \E i \in 1..Len(m) : m[i].key = key

ValueOf(m, key) == m[CHOOSE i \in 1..Len(m) : m[i].key = key].value

known_params(op) == IF op = "blob_to_image" THEN { } ELSE { "width", "height" }

RequiredKind(op) == IF op = "resize" THEN "image" ELSE "blob"

IsMatch(op, e) == e.key \notin known_params(op) /\ e.value.kind = RequiredKind(op)

ScanState(found, artifact, multiple) ==
    [found |-> found, artifact |-> artifact, multiple |-> multiple]

(* Variant: a later match silently replaces an earlier one *)
RECURSIVE ScanLoopLastWins(_, _, _, _)
ScanLoopLastWins(op, m, i, st) ==
    IF i > Len(m) THEN st
    ELSE IF IsMatch(op, m[i])
         THEN ScanLoopLastWins(op, m, i + 1, ScanState(TRUE, m[i].value, FALSE))
    ELSE ScanLoopLastWins(op, m, i + 1, st)

(* the for loop over manifest.items(): raises at the second match *)
RECURSIVE ScanLoop(_, _, _, _)
ScanLoop(op, m, i, st) ==
    IF i > Len(m) THEN st
    ELSE IF IsMatch(op, m[i])
         THEN IF st.found THEN ScanState(TRUE, st.artifact, TRUE)
              ELSE ScanLoop(op, m, i + 1, ScanState(TRUE, m[i].value, FALSE))
    ELSE ScanLoop(op, m, i + 1, st)

Scan(op, m) == ScanLoop(op, m, 1, ScanState(FALSE, NoArtifact, FALSE))

(* the checks of 'width' and 'height' that precede the scan *)
SizeCheck(m) ==
    IF ~HasKey(m, "width") THEN Raised("E_WIDTH_KEY", "KeyError")
    ELSE IF ~HasKey(m, "height") THEN Raised("E_HEIGHT_KEY", "KeyError")
    ELSE IF ValueOf(m, "width").kind # "scalar" THEN Raised("E_WIDTH_TYPE", "ValueError")
    ELSE IF ValueOf(m, "height").kind # "scalar" THEN Raised("E_HEIGHT_TYPE", "ValueError")
    ELSE IF ValueOf(m, "width").value <= 0 \/ ValueOf(m, "height").value <= 0
         THEN Raised("E_SIZE", "ValueError")
    ELSE Outcome("ok", "none", NoArtifact,
                 ValueOf(m, "width").value, ValueOf(m, "height").value)

svg2png(data) == data # << >> /\ data[1] = 60

resize(m) ==
    LET size == SizeCheck(m)
        st == Scan("resize", m)
    IN  IF size.status # "ok" THEN size
        ELSE IF st.multiple THEN Raised("E_MULTIPLE", "ValueError")
        ELSE IF ~st.found THEN Raised("E_NO_UPSTREAM", "KeyError")
        ELSE Outcome("ok", "none", st.artifact, size.w, size.h)

blob_to_image(m) ==
    LET st == Scan("blob_to_image", m)
    IN  IF st.multiple THEN Raised("E_MULTIPLE", "ValueError")
        ELSE IF ~st.found THEN Raised("E_NO_UPSTREAM", "KeyError")
        ELSE IF ~PngDecode(st.artifact.data).ok
             THEN Outcome("E_PARSE", "ValueError", st.artifact, 0, 0)
        ELSE Outcome("ok", "none", st.artifact,
                     PngDecode(st.artifact.data).image.w,
                     PngDecode(st.artifact.data).image.h)

render_svg(m) ==
    LET size == SizeCheck(m)
        st == Scan("render_svg", m)
    IN  IF size.status # "ok" THEN size
        ELSE IF st.multiple THEN Raised("E_MULTIPLE", "ValueError")
        ELSE IF ~st.found THEN Raised("E_NO_UPSTREAM", "KeyError")
        ELSE IF ~svg2png(st.artifact.data)
             THEN Outcome("E_RENDER", "ValueError", st.artifact, 0, 0)
        ELSE Outcome("ok", "none", st.artifact, size.w, size.h)

ScanOps == { "resize", "blob_to_image", "render_svg" }

Invoke(op, m) ==
    IF op = "resize" THEN resize(m)
    ELSE IF op = "blob_to_image" THEN blob_to_image(m)
    ELSE render_svg(m)

(* Inputs *)
DepKeySeq == << "source", "icon", "extra" >>

DepKeys == { DepKeySeq[i] : i \in 1..MaxDeps }

Absent == [kind |-> "absent"]

PngBlob == BlobArtifact(_to_canonical_png(Solid(1, 1, TestPixel)), << "a" >>)

SvgBlob == BlobArtifact(<< 60, 97 >>, << "a" >>)

DepValues == { Solid(1, 2, TestPixel), Solid(2, 1, Transparent), PngBlob, SvgBlob }

WidthValues == { Scalar(2), Scalar(0), Solid(1, 2, TestPixel) }

HeightValues == { Scalar(3) }

ScanKeySeq == << "width", "height" >> \o SubSeq(DepKeySeq, 1, MaxDeps)

(* the entries of a content (key -> value or Absent), in the order given by
   the permutation p of the keys that are present *)
Present(content) == SelectSeq(ScanKeySeq, LAMBDA key : content[key] # Absent)

Ordered(content, p) ==
    LET present == Present(content)
    IN  [i \in 1..Len(present) |-> Entry(present[p[i]], content[present[p[i]]])]

(* the manifest with the entries i and i + 1 in the other order *)
Swapped(m, i) ==
    [j \in 1..Len(m) |-> IF j = i THEN m[i + 1] ELSE IF j = i + 1 THEN m[i] ELSE m[j]]

ScanCall ==
    /\ scan_pc = "idle"
    /\ \E op \in ScanOps :
       \E width \in WidthValues \cup { Absent } :
       \E height \in HeightValues \cup { Absent } :
       \E deps \in [DepKeys -> DepValues \cup { Absent }] :
          LET content == [key \in { "width", "height" } \cup DepKeys |->
                            IF key = "width" THEN width
                            ELSE IF key = "height" THEN height
                            ELSE deps[key]]
          IN  \E p \in Permutations(1..Len(Present(content))) :
                  /\ scan_op' = op
                  /\ scan_manifest' = Ordered(content, p)
    /\ scan_pc' = "called"
    /\ UNCHANGED scan_result
    /\ UNCHANGED notScanVars

ScanReturn ==
    /\ scan_pc = "called"
    /\ scan_result' = Invoke(scan_op, scan_manifest)
    /\ scan_pc' = "done"
    /\ UNCHANGED <<scan_op, scan_manifest>>
    /\ UNCHANGED notScanVars

NextScan ==
    \/ ScanCall
    \/ ScanReturn

SpecScan == Init /\ [][NextScan]_vars

(* the entries of the manifest that the scan of the operation matches *)
Matches(op, m) == { i \in 1..Len(m) : IsMatch(op, m[i]) }

(* the scan is reached: the scalar parameters of the operation are in order *)
ScanReached(op, m) == op = "blob_to_image" \/ SizeCheck(m).status = "ok"

(* C14: once its scalar parameters are accepted, each of resize,
   blob_to_image and render_svg uses the one artifact of its kind that is
   stored under a key other than its scalar parameters, whatever that key
   is; fails with the ambiguity error (a ValueError) when there are several
   and with the missing-dependency error (a KeyError) when there is none;
   and returns or raises the same whatever the order of the entries. *)
C14_TypeScan ==
    scan_pc = "done" =>
        LET m == scan_manifest
            n == Cardinality(Matches(scan_op, m))
        IN  /\ ScanReached(scan_op, m) =>
                /\ n = 1 => /\ scan_result.status \notin { "E_MULTIPLE", "E_NO_UPSTREAM" }
                            /\ \E i \in Matches(scan_op, m) : scan_result.used = m[i].value
                /\ n > 1 => /\ scan_result.status = "E_MULTIPLE"
                            /\ scan_result.exception = "ValueError"
                            /\ scan_result.used = NoArtifact
                /\ n = 0 => /\ scan_result.status = "E_NO_UPSTREAM"
                            /\ scan_result.exception = "KeyError"
                            /\ scan_result.used = NoArtifact
            /\ \A i \in 1..(Len(m) - 1) :
                   Invoke(scan_op, Swapped(m, i)) = scan_result

C14_Witness ==
    /\ scan_pc = "done"
    /\ scan_op = "resize"
    /\ Len(scan_manifest) = 4
    /\ scan_manifest[1].key = "icon"
    /\ scan_manifest[1].value = Solid(2, 1, Transparent)
    /\ scan_manifest[2].key = "width"
    /\ scan_manifest[3].value = SvgBlob
    /\ scan_result.status = "ok"
    /\ scan_result.used = Solid(2, 1, Transparent)

-----------------------------------------------------------------------------
(* recipes/drop_shadow.py: the drop-shadow recipe.

   sigma is a Decimal: it is held as a whole number of tenths.  The dict of
   nodes is the sequence of its (name, node) entries in insertion order. *)

ref(name) == [ref |-> name]

Node(op_name, params, deps) == [op_name |-> op_name, params |-> params, deps |-> deps]

Named(name, node) == [name |-> name, node |-> node]

SubGraphNode(params, deps, graph, output) ==
    [params |-> params, deps |-> deps, graph |-> graph, output |-> output]

(* the smallest integer that is not below a / b, for b > 0 *)
CeilDiv(a, b) == -((-a) \div b)

(* Variant: the blur extent is rounded down *)
PadAmountFloor(sigma10, radius) == ((3 * sigma10) \div 10) + radius

(* int((Decimal("3") * sigma).to_integral_value(rounding=ROUND_CEILING)) + radius *)
PadAmount(sigma10, radius) == CeilDiv(3 * sigma10, 10) + radius

LastName(nodes) == nodes[Len(nodes)].name

DilateStep(nodes, radius) ==
    IF radius > 0
    THEN Append(nodes, Named("dilated",
             Node("gfx:dilate",
                  [image |-> ref(LastName(nodes)), radius |-> radius],
                  << LastName(nodes) >>)))
    ELSE nodes

(* Variant: the blur node is emitted for a zero sigma as well *)
BlurStepAlways(nodes, sigma10) ==
    IF sigma10 >= 0
    THEN Append(nodes, Named("blurred",
             Node("gfx:gaussian_blur",
                  [image |-> ref(LastName(nodes)), sigma |-> sigma10],
                  << LastName(nodes) >>)))
    ELSE nodes

BlurStep(nodes, sigma10) ==
    IF sigma10 > 0
    THEN Append(nodes, Named("blurred",
             Node("gfx:gaussian_blur",
                  [image |-> ref(LastName(nodes)), sigma |-> sigma10],
                  << LastName(nodes) >>)))
    ELSE nodes

ColorStep(nodes, color) ==
    Append(nodes, Named("colored",
        Node("gfx:colorize",
             [image |-> ref(LastName(nodes)), color |-> color],
             << LastName(nodes) >>)))

OffsetStep(nodes, dx, dy) ==
    IF dx # 0 \/ dy # 0
    THEN Append(nodes, Named("offset",
             Node("gfx:translate",
                  [image |-> ref(LastName(nodes)), dx |-> dx, dy |-> dy],
                  << LastName(nodes) >>)))
    ELSE nodes

drop_shadow(source, dx, dy, radius, sigma10, color) ==
    LET pad == PadAmount(sigma10, radius)
        alpha == Named("alpha",
                     Node("gfx:extract_alpha", [image |-> ref("source")], << "source" >>))
        padded == Named("padded",
                      Node("gfx:pad",
                           [image |-> ref("alpha"), left |-> pad, top |-> pad,
                            right |-> pad, bottom |-> pad],
                           << "alpha" >>))
        nodes == OffsetStep(
                     ColorStep(
                         BlurStep(DilateStep(<< alpha, padded >>, radius), sigma10),
                         color),
                     dx, dy)
    IN  SubGraphNode([source |-> ref(source)], << source >>, nodes, LastName(nodes))

(* Inputs *)
SourceIds == { "source", "text" }

DefaultColor == << 0, 0, 0, 180 >>

ShadowColors == { DefaultColor, << 255, 255, 255, 255 >> }

DefaultSigmaTenths == 30

SigmaValues == (-1..MaxSigmaTenths) \cup { DefaultSigmaTenths }

RadiusValues == -1..MaxRadius

ShiftValues == (-MaxShift)..MaxShift

RecipeArgs(source, dx, dy, radius, sigma10, color) ==
    [source |-> source, dx |-> dx, dy |-> dy, radius |-> radius,
     sigma10 |-> sigma10, color |-> color]

RecipeCall ==
    /\ recipe_pc = "idle"
    /\ \E source \in SourceIds : \E dx \in ShiftValues, dy \in ShiftValues :
       \E radius \in RadiusValues : \E sigma10 \in SigmaValues :
       \E color \in ShadowColors :
          recipe_args' = RecipeArgs(source, dx, dy, radius, sigma10, color)
    /\ recipe_pc' = "called"
    /\ UNCHANGED recipe_result
    /\ UNCHANGED notRecipeVars

RecipeReturn ==
    /\ recipe_pc = "called"
    /\ recipe_result' = drop_shadow(recipe_args.source, recipe_args.dx, recipe_args.dy,
                                    recipe_args.radius, recipe_args.sigma10,
                                    recipe_args.color)
    /\ recipe_pc' = "returned"
    /\ UNCHANGED recipe_args
    /\ UNCHANGED notRecipeVars

NextRecipe ==
    \/ RecipeCall
    \/ RecipeReturn

SpecRecipe == Init /\ [][NextRecipe]_vars

-----------------------------------------------------------------------------
(* Claims about the drop-shadow recipe *)

Opt(present, name) == IF present THEN << name >> ELSE << >>

ChainNames(a) ==
    << "alpha", "padded" >>
        \o Opt(a.radius > 0, "dilated")
        \o Opt(a.sigma10 > 0, "blurred")
        \o << "colored" >>
        \o Opt(a.dx # 0 \/ a.dy # 0, "offset")

OpOf(name) ==
    CASE name = "alpha"   -> "gfx:extract_alpha"
      [] name = "padded"  -> "gfx:pad"
      [] name = "dilated" -> "gfx:dilate"
      [] name = "blurred" -> "gfx:gaussian_blur"
      [] name = "colored" -> "gfx:colorize"
      [] name = "offset"  -> "gfx:translate"

(* C15: the emitted sub-pipeline is the chain alpha, padded, [dilated],
   [blurred], colored, [offset], with dilated present iff radius > 0,
   blurred iff sigma > 0 and offset iff dx or dy is not zero; every node
   depends on and reads its predecessor only, the first node the external
   slot "source", which is the only input of the unit; the output is the
   last node, "colored" when the offset is zero. *)
C15_ChainShape ==
    recipe_pc = "returned" =>
        LET g == recipe_result.graph
            a == recipe_args
        IN  /\ [i \in 1..Len(g) |-> g[i].name] = ChainNames(a)
            /\ \A i \in 1..Len(g) : g[i].node.op_name = OpOf(g[i].name)
            /\ g[1].node.deps = << "source" >>
            /\ g[1].node.params.image = ref("source")
            /\ \A i \in 2..Len(g) :
                   /\ g[i].node.deps = << g[i - 1].name >>
                   /\ g[i].node.params.image = ref(g[i - 1].name)
            /\ DOMAIN recipe_result.params = { "source" }
            /\ recipe_result.params.source = ref(a.source)
            /\ recipe_result.deps = << a.source >>
            /\ recipe_result.output = g[Len(g)].name
            /\ (a.dx = 0 /\ a.dy = 0) => recipe_result.output = "colored"

C15_Witness ==
    /\ recipe_pc = "returned"
    /\ recipe_args.radius > 0
    /\ recipe_args.sigma10 = 0
    /\ recipe_args.dx = 0
    /\ recipe_args.dy # 0
    /\ Len(recipe_result.graph) = 5
    /\ recipe_result.graph[3].name = "dilated"
    /\ recipe_result.graph[4].name = "colored"
    /\ recipe_result.output = "offset"

PadParams(r) == r.graph[2].node.params

(* C16: the pad node pads by one amount on all four sides, the amount being
   ceil(3 * sigma) + radius whatever dx, dy and the color are; it is not
   negative when sigma and radius are not; with sigma > 0 and radius = 0
   the padding requested on an axis is 2 * ceil(3 * sigma), at least 2. *)
C16_PadAmount ==
    recipe_pc = "returned" =>
        LET a == recipe_args
            p == PadParams(recipe_result)
            blur == p.left - a.radius
        IN  /\ p.top = p.left /\ p.right = p.left /\ p.bottom = p.left
            /\ 10 * blur >= 3 * a.sigma10
            /\ 10 * (blur - 1) < 3 * a.sigma10
            /\ \A dx \in ShiftValues, dy \in ShiftValues, color \in ShadowColors :
                   PadParams(drop_shadow(a.source, dx, dy, a.radius, a.sigma10, color)) = p
            /\ (a.sigma10 >= 0 /\ a.radius >= 0) => p.left >= 0
            /\ (a.sigma10 > 0 /\ a.radius = 0) =>
                   /\ p.left + p.right = 2 * blur
                   /\ p.top + p.bottom = 2 * blur
                   /\ blur >= 1

C16_Witness ==
    /\ recipe_pc = "returned"
    /\ recipe_args.sigma10 = 4
    /\ recipe_args.radius = 0
    /\ recipe_args.dx # 0
    /\ PadParams(recipe_result).left = 2
    /\ PadParams(recipe_result).bottom = 2

-----------------------------------------------------------------------------
(* composite and layout over image objects that several invocations share.

   An image object lives in the heap under its reference: its extents, the
   alpha value of its pixels and what was pasted onto it.  The local
   variables of an invocation (z_order, placed, canvas, layer_image, x, y)
   are the fields of its call record.  A layer spec is its anchor spec with
   the optional keys "opacity" (<< >> when absent, in percent) and "mode"
   ("<absent>" when absent). *)

Ref(space, owner, n) == [space |-> space, owner |-> owner, n |-> n]

NoRef == Ref("none", 0, 0)
InputRef(n) == Ref("input", 0, n)
BlobRef == Ref("blob", 0, 0)
MissingRef == Ref("missing", 0, 0)

HeapImage(w, h, alpha) == [w |-> w, h |-> h, alpha |-> alpha, pastes |-> << >>]

InputHeap ==
    [r \in { InputRef(1), InputRef(2) } |->
        IF r.n = 1 THEN HeapImage(2, 1, 255) ELSE HeapImage(1, 2, 200)]

Alloc(h, r, img) == [x \in DOMAIN h \cup { r } |-> IF x = r THEN img ELSE h[x]]

(* the artifact that the manifest holds under a layer or item id *)
ViewOf(h, r) ==
    IF r.space = "blob" THEN Blob
    ELSE IF r.space = "missing" THEN Missing
    ELSE Image(h[r].w, h[r].h)

StyledLayer(id, anchor, image, opacity, mode) ==
    [id |-> id, anchor |-> anchor, image |-> image, opacity |-> opacity, mode |-> mode]

CompositeView(m, h) ==
    Manifest("dict", [i \in 1..Len(m.layers) |->
        Layer(m.layers[i].id, m.layers[i].anchor, ViewOf(h, m.layers[i].image))])

LayoutView(m, h) ==
    LayoutManifest(LayoutKeys, m.direction, m.align, m.gap,
                   [i \in 1..Len(m.items) |-> ViewOf(h, m.items[i])])

(* lines 85-95: layer_spec.get("opacity", 1.0), clamped to [0, 1] *)
Opacity(layer_spec) ==
    LET opacity_val == IF layer_spec.opacity = << >> THEN 100 ELSE layer_spec.opacity[1]
    IN  IF opacity_val < 0 THEN 0 ELSE IF opacity_val > 100 THEN 100 ELSE opacity_val

(* Variant: no copy is made, the layer image is the artifact's own image *)
CopyImageAlias(h, r, new) == [heap |-> h, ref |-> r]

(* layer_image.copy() *)
CopyImage(h, r, new) == [heap |-> Alloc(h, new, h[r]), ref |-> new]

(* Python's float is IEEE 754 binary64: 53 significant bits, round to
   nearest, ties to even.  A magnitude is held in three limbs of 18 bits,
   (hi * Limb^2 + mid * Limb + lo) / 2^frac, so that every intermediate
   value fits a machine integer. *)
Limb == 2^18

Float(hi, mid, lo, frac) == [hi |-> hi, mid |-> mid, lo |-> lo, frac |-> frac]

(* what exceeds a limb is carried into the limb above *)
Carry(f) ==
    LET mid == f.mid + f.lo \div Limb
    IN  Float(f.hi + mid \div Limb, mid % Limb, f.lo % Limb, f.frac)

(* the number of bits of n *)
BitLength(n) == CHOOSE b \in 0..30 : n < 2^b /\ (b = 0 \/ n >= 2^(b - 1))

(* lines 88-91: float(opacity_val) for a Decimal of num hundredths,
   0 <= num <= 100: the binary64 nearest to num / 100 *)
float(num) ==
    IF num = 0 THEN Float(0, 0, 0, 0)
    ELSE IF num >= 100 THEN Float(2^16, 0, 0, 52)
    ELSE LET s   == CHOOSE e \in 0..6 : 50 <= num * 2^e /\ num * 2^e < 100
             n   == num * 2^s
             hi  == (n * 2^17) \div 100
             r1  == (n * 2^17) % 100
             mid == (r1 * Limb) \div 100
             r2  == (r1 * Limb) % 100
             lo  == (r2 * Limb) \div 100
             r3  == (r2 * Limb) % 100
             up  == IF 2 * r3 > 100 \/ (2 * r3 = 100 /\ lo % 2 = 1) THEN 1 ELSE 0
         IN  Carry(Float(hi, mid, lo + up, 53 + s))

(* line 103: p * opacity for an int p in 0..255: the exact product, rounded
   to 53 significant bits *)
Times(p, f) ==
    LET exact == Carry(Float(p * f.hi, p * f.mid, p * f.lo, f.frac))
        drop  == BitLength(exact.hi) - 17
        low   == exact.lo % 2^drop
        half  == 2^(drop - 1)
        up    == IF low > half \/ (low = half /\ (exact.lo \div 2^drop) % 2 = 1)
                 THEN 2^drop ELSE 0
    IN  IF drop <= 0 THEN exact
        ELSE Carry(Float(exact.hi, exact.mid, exact.lo - low + up, exact.frac))

(* line 103: int(x) for x >= 0: the fraction is dropped *)
int(f) == IF f.hi = 0 THEN 0 ELSE f.hi \div 2^(f.frac - 36)

(* Variant: the scaled alpha is rounded to the nearest integer *)
PutAlphaRounded(h, r, opacity) ==
    [h EXCEPT ![r].alpha = (2 * @ * opacity + 100) \div 200]

(* alpha.point(lambda p: int(p * opacity)); layer_image.putalpha(alpha) *)
PutAlpha(h, r, opacity) == [h EXCEPT ![r].alpha = int(Times(@, float(opacity)))]

(* lines 97-104 *)
LayerImage(h, r, opacity, new) ==
    IF opacity < 100
    THEN LET c == CopyImage(h, r, new)
         IN  [heap |-> PutAlpha(c.heap, c.ref, opacity), ref |-> c.ref]
    ELSE [heap |-> h, ref |-> r]

(* Variant: the mode of the layer is the mode of the paste *)
BlendModeApplied(mode) == IF mode = "<absent>" THEN "normal" ELSE mode

(* lines 110-113: every mode falls back to normal *)
BlendMode(mode) == "normal"

PasteOnto(h, cv, layer_id, x, y, r, blend) ==
    [h EXCEPT ![cv].pastes =
        Append(@, [id |-> layer_id, x |-> x, y |-> y, w |-> h[r].w, h |-> h[r].h,
                   alpha |-> h[r].alpha, blend |-> blend])]

(* Variant: one canvas object serves every invocation *)
CanvasRefModule(i) == Ref("canvas", 0, 0)

(* Image.new("RGBA", ...): the canvas object of invocation i *)
CanvasRef(i) == Ref("canvas", i, 0)

CopyRef(i, n) == Ref("copy", i, n)

Call(op, m) ==
    [op |-> op, manifest |-> m, pc |-> "called", z_order |-> << >>, k |-> 0,
     placed |-> EmptyLedger, canvas |-> NoRef, layer_image |-> NoRef,
     x |-> 0, y |-> 0, cursor |-> 0, error |-> NoError]

Stepped(c, h) == [call |-> c, heap |-> h]

(* composite lines 27-71, layout lines 30-111 *)
BeginStep(i, c, h) ==
    LET p == IF c.op = "composite"
             THEN CompositePrepare(CompositeView(c.manifest, h))
             ELSE LayoutPrepare(LayoutView(c.manifest, h))
    IN  IF p.err # NoError
        THEN Stepped([c EXCEPT !.pc = "raised", !.error = p.err], h)
        ELSE Stepped([c EXCEPT !.z_order = IF c.op = "composite" THEN p.order ELSE << >>,
                               !.k = 1,
                               !.canvas = CanvasRef(i),
                               !.pc = IF c.op = "composite" THEN "resolve" ELSE "place"],
                     Alloc(h, CanvasRef(i), HeapImage(p.canvas.w, p.canvas.h, 0)))

(* composite lines 75-104: position, opacity, layer image *)
ResolveStep(i, c, h) ==
    LET layer_id == c.z_order[c.k]
        layer == EntryOf(c.manifest.layers, layer_id)
        r == _resolve_position(layer.anchor, layer_id, ViewOf(h, layer.image), c.placed)
        li == LayerImage(h, layer.image, Opacity(layer), CopyRef(i, c.k))
    IN  IF r.err # NoError
        THEN Stepped([c EXCEPT !.pc = "raised", !.error = r.err], h)
        ELSE Stepped([c EXCEPT !.layer_image = li.ref, !.x = r.x, !.y = r.y,
                               !.pc = "paste"],
                     li.heap)

(* composite lines 106-122: paste and record *)
PasteStep(i, c, h) ==
    LET layer_id == c.z_order[c.k]
        layer == EntryOf(c.manifest.layers, layer_id)
    IN  Stepped([c EXCEPT !.placed = Record(c.placed, layer_id, c.x, c.y,
                                            ViewOf(h, layer.image)),
                          !.k = c.k + 1,
                          !.pc = "resolve"],
                PasteOnto(h, c.canvas, layer_id, c.x, c.y, c.layer_image,
                          BlendMode(layer.mode)))

(* layout lines 114-148: one item *)
PlaceStep(i, c, h) ==
    LET m == c.manifest
        artifact == ViewOf(h, m.items[c.k])
        at == ItemPosition(m.direction, m.align, h[c.canvas], c.cursor, artifact)
    IN  Stepped([c EXCEPT !.cursor = Advance(m.direction, c.cursor, artifact,
                                             GapToInt(m.gap)),
                          !.k = c.k + 1],
                PasteOnto(h, c.canvas, ItemIdSeq[c.k], at.x, at.y, m.items[c.k],
                          "normal"))

(* return ImageArtifact(canvas) *)
ReturnStep(i, c, h) == Stepped([c EXCEPT !.pc = "returned"], h)

Final(c) == c.pc \in { "returned", "raised" }

AtResolve(c) == c.pc = "resolve" /\ c.k <= Len(c.z_order)

AtPlace(c) == c.pc = "place" /\ c.k <= Len(c.manifest.items)

AtReturn(c) ==
    \/ c.pc = "resolve" /\ c.k > Len(c.z_order)
    \/ c.pc = "place" /\ c.k > Len(c.manifest.items)

Step(i, c, h) ==
    IF c.pc = "called" THEN BeginStep(i, c, h)
    ELSE IF AtResolve(c) THEN ResolveStep(i, c, h)
    ELSE IF c.pc = "paste" THEN PasteStep(i, c, h)
    ELSE IF AtPlace(c) THEN PlaceStep(i, c, h)
    ELSE ReturnStep(i, c, h)

(* the invocation run from call to end with nothing else running *)
RECURSIVE Run(_, _, _)
Run(i, c, h) ==
    IF Final(c) THEN Stepped(c, h)
    ELSE LET s == Step(i, c, h) IN Run(i, s.call, s.heap)

RunAlone(i, op, m) == Run(i, Call(op, m), InputHeap)

(* Inputs: one or two invocations' worth of layers over the two shared
   images, a BlobArtifact and a key without artifact *)
SharedIds == << "a", "b" >>

LayerImages == { InputRef(1), InputRef(2), BlobRef, MissingRef }

Opacities == { << >>, << 50 >>, << 150 >> }

Modes == { "<absent>", "multiply" }

AnchorKinds == { "chain", "absolute" }

(* a "bare" anchor is a relative anchor without the key "align" *)
SharedAnchor(i, kind) ==
    IF i = 1 \/ kind = "absolute"
    THEN absolute(i - 1, 0)
    ELSE relative(SharedIds[i - 1], IF kind = "bare" THEN NoAlign ELSE AlignCC, 1, 0)

SharedLayers(n, f) ==
    [i \in 1..n |-> StyledLayer(SharedIds[i], SharedAnchor(i, f[i][4]),
                                f[i][1], f[i][2], f[i][3])]

(* the same mapping with its keys inserted in another order *)
Permuted(layers, p) == [i \in 1..Len(layers) |-> layers[p[i]]]

(* the same layers without the key "opacity" *)
Plain(layers) == [i \in 1..Len(layers) |-> [layers[i] EXCEPT !.opacity = << >>]]

(* opacities 0, 0.29, 0.5, 1 and 1.5, and relative anchors with and without
   an alignment, for the invocations compared with their plain form *)
StyleOpacities == { << >>, << 0 >>, << 29 >>, << 50 >>, << 100 >>, << 150 >> }

StyleAnchorKinds == AnchorKinds \cup { "bare" }

(* the same layers with every mode set to "normal" *)
Normal(layers) == [i \in 1..Len(layers) |-> [layers[i] EXCEPT !.mode = "normal"]]

CompositeOf(layers) == [layers |-> layers]

LayoutOf(layers) ==
    [direction |-> "row", align |-> "c", gap |-> 2,
     items |-> [i \in 1..Len(layers) |-> layers[i].image]]

Invocations(op1, m1, op2, m2) ==
    /\ calls' = << Call(op1, m1), Call(op2, m2) >>
    /\ given' = << m1, m2 >>
    /\ heap' = InputHeap

(* two invocations are started over the same artifacts *)
SharedCall ==
    /\ calls = << >>
    /\ \E n \in 1..Len(SharedIds) :
       \E f \in [1..n -> LayerImages \X Opacities \X Modes \X AnchorKinds] :
          LET layers == SharedLayers(n, f)
          IN  \/ \E p \in Permutations(1..n) :
                     Invocations("composite", CompositeOf(layers),
                                 "composite", CompositeOf(Permuted(layers, p)))
              \/ Invocations("composite", CompositeOf(layers),
                             "composite", CompositeOf(Normal(layers)))
              \/ Invocations("composite", CompositeOf(layers),
                             "layout", LayoutOf(layers))
              \/ Invocations("layout", LayoutOf(layers), "layout", LayoutOf(layers))
    /\ UNCHANGED notSharedVars

(* a composite invocation and the same without the opacities *)
SharedCallStyled ==
    /\ calls = << >>
    /\ \E n \in 1..Len(SharedIds) :
       \E f \in [1..n -> LayerImages \X StyleOpacities \X { "<absent>" }
                               \X StyleAnchorKinds] :
          LET layers == SharedLayers(n, f)
          IN  Invocations("composite", CompositeOf(layers),
                          "composite", CompositeOf(Plain(layers)))
    /\ UNCHANGED notSharedVars

Apply(i, s) ==
    /\ calls' = [calls EXCEPT ![i] = s.call]
    /\ heap' = s.heap
    /\ UNCHANGED given
    /\ UNCHANGED notSharedVars

SharedBegin ==
    \E i \in DOMAIN calls :
        /\ calls[i].pc = "called"
        /\ Apply(i, BeginStep(i, calls[i], heap))

SharedResolve ==
    \E i \in DOMAIN calls :
        /\ AtResolve(calls[i])
        /\ Apply(i, ResolveStep(i, calls[i], heap))

SharedPaste ==
    \E i \in DOMAIN calls :
        /\ calls[i].pc = "paste"
        /\ Apply(i, PasteStep(i, calls[i], heap))

SharedPlace ==
    \E i \in DOMAIN calls :
        /\ AtPlace(calls[i])
        /\ Apply(i, PlaceStep(i, calls[i], heap))

SharedReturn ==
    \E i \in DOMAIN calls :
        /\ AtReturn(calls[i])
        /\ Apply(i, ReturnStep(i, calls[i], heap))

NextShared ==
    \/ SharedCall
    \/ SharedCallStyled
    \/ SharedBegin
    \/ SharedResolve
    \/ SharedPaste
    \/ SharedPlace
    \/ SharedReturn

SpecShared == Init /\ [][NextShared]_vars

-----------------------------------------------------------------------------
(* Claims about invocations over shared images *)

(* what the caller of an invocation gets: the canvas returned or the error
   raised, and (for inspection) the ledger *)
Observed(c, h) ==
    [pc |-> c.pc, error |-> c.error, placed |-> c.placed,
     image |-> IF c.pc = "returned"
               THEN [w |-> h[c.canvas].w, h |-> h[c.canvas].h,
                     pastes |-> h[c.canvas].pastes]
               ELSE [w |-> 0, h |-> 0, pastes |-> << >>]]

Started == calls # << >>

BothFinal == Started /\ Final(calls[1]) /\ Final(calls[2])

BothComposite == calls[1].op = "composite" /\ calls[2].op = "composite"

(* the second invocation got the mapping of the first, in some key order *)
Reordering ==
    /\ BothComposite
    /\ \E p \in Permutations(1..Len(given[1].layers)) :
           given[2].layers = Permuted(given[1].layers, p)

EqualParameters == calls[1].op = calls[2].op /\ given[1] = given[2]

InputsUnchanged == \A r \in DOMAIN InputHeap : heap[r] = InputHeap[r]

(* C17 as stated: two invocations of composite or layout with equal
   parameters over the same artifacts return the same canvas or raise the
   same error, also when the keys of the layers mapping are in another
   order. *)
C17_SameOutcomeAnyKeyOrder ==
    (BothFinal /\ (Reordering \/ EqualParameters)) =>
        Observed(calls[1], heap) = Observed(calls[2], heap)

(* C17 amended: with equal parameters in the same key order the two
   invocations return the same canvas or raise the same error; with the
   keys of the layers mapping in another order both return or both raise,
   and a returned canvas and ledger are the same (the error raised may
   differ). *)
C17_SameCanvasAnyKeyOrder ==
    (BothFinal /\ (Reordering \/ EqualParameters)) =>
        /\ calls[1].pc = calls[2].pc
        /\ calls[1].pc = "returned" =>
               Observed(calls[1], heap) = Observed(calls[2], heap)
        /\ EqualParameters => Observed(calls[1], heap) = Observed(calls[2], heap)

C17_Witness ==
    /\ BothFinal
    /\ Reordering
    /\ given[1] # given[2]
    /\ calls[1].pc = "returned"
    /\ calls[2].pc = "returned"
    /\ Len(heap[calls[2].canvas].pastes) = 2
    /\ heap[calls[1].canvas].pastes = heap[calls[2].canvas].pastes

(* the layer that invocation c is handling *)
CurrentLayer(c) == EntryOf(c.manifest.layers, c.z_order[c.k])

(* C18: the input images keep their extents and pixels and the manifests
   stay as given, whether an invocation returns or raises; an opacity
   below 1 is applied to a copy of the layer image, which belongs to the
   invocation; the returned canvas is an object of its own, no input. *)
C18_InputsNotMutated ==
    Started =>
        /\ InputsUnchanged
        /\ \A i \in DOMAIN calls :
               /\ calls[i].manifest = given[i]
               /\ (calls[i].pc = "paste" /\ Opacity(CurrentLayer(calls[i])) < 100) =>
                      /\ calls[i].layer_image = CopyRef(i, calls[i].k)
                      /\ calls[i].layer_image \notin DOMAIN InputHeap
                      /\ heap[calls[i].layer_image].alpha =
                             int(Times(InputHeap[CurrentLayer(calls[i]).image].alpha,
                                       float(Opacity(CurrentLayer(calls[i])))))
               /\ calls[i].pc = "returned" =>
                      /\ calls[i].canvas \in DOMAIN heap
                      /\ calls[i].canvas \notin DOMAIN InputHeap

C18_Witness ==
    /\ BothFinal
    /\ calls[1].op = "composite"
    /\ calls[1].pc = "returned"
    /\ calls[2].op = "layout"
    /\ calls[2].pc = "returned"
    /\ \E j \in 1..Len(given[1].layers) :
           /\ given[1].layers[j].opacity = << 50 >>
           /\ given[1].layers[j].image = InputRef(1)
    /\ \E j \in 1..Len(heap[calls[1].canvas].pastes) :
           heap[calls[1].canvas].pastes[j].alpha = 127
    /\ heap[InputRef(1)].alpha = 255

(* C19: whatever the interleaving of the two invocations, each ends as it
   ends when run alone, the shared images are unchanged, and canvas and
   ledger belong to one invocation. *)
C19_InterleavingKeepsResults ==
    Started =>
        /\ InputsUnchanged
        /\ \A i \in DOMAIN calls :
               Final(calls[i]) =>
                   LET alone == RunAlone(i, calls[i].op, given[i])
                   IN  Observed(calls[i], heap) = Observed(alone.call, alone.heap)
        /\ (calls[1].canvas # NoRef /\ calls[2].canvas # NoRef) =>
               calls[1].canvas # calls[2].canvas

C19_Witness ==
    /\ Started
    /\ calls[1].pc = "returned"
    /\ calls[2].pc = "paste"
    /\ calls[2].k = 2
    /\ calls[2].layer_image.space = "copy"
    /\ given[1].layers[1].image = given[2].layers[1].image
    /\ Len(heap[calls[1].canvas].pastes) = 2
    /\ Len(heap[calls[2].canvas].pastes) = 1

HasOtherMode(layers) == \E j \in 1..Len(layers) : layers[j].mode \notin { "normal", "<absent>" }

(* C20: a layer with a mode other than the default raises no error of its
   own and is composited as with the default mode: with every mode
   replaced by "normal" the invocation ends with the same canvas, the same
   ledger and the same error, if any. *)
C20_ModeFallsBackToNormal ==
    (/\ BothFinal
     /\ BothComposite
     /\ HasOtherMode(given[1].layers)
     /\ given[2].layers = Normal(given[1].layers)) =>
        Observed(calls[1], heap) = Observed(calls[2], heap)

C20_Witness ==
    /\ BothFinal
    /\ BothComposite
    /\ given[1].layers[1].mode = "multiply"
    /\ given[2].layers = Normal(given[1].layers)
    /\ calls[1].pc = "returned"
    /\ calls[2].pc = "returned"
    /\ Len(heap[calls[1].canvas].pastes) = 2

-----------------------------------------------------------------------------
(* Claims about the opacity of a layer *)

(* the second invocation got the layers of the first without their
   opacities *)
PlainPair == Started /\ BothComposite /\ given[2].layers = Plain(given[1].layers)

SameBox(p, q) == p.id = q.id /\ p.x = q.x /\ p.y = q.y /\ p.w = q.w /\ p.h = q.h

BoxOf(p) == [x |-> p.x, y |-> p.y, w |-> p.w, h |-> p.h]

(* the opacity given for the layer, in hundredths; << >> when absent *)
GivenOpacity(id) == EntryOf(given[1].layers, id).opacity

Untouched(o) == o = << >> \/ o[1] = 100

Scaled(o) == o # << >> /\ 0 <= o[1] /\ o[1] < 100

(* the integer part of a * o for o of num hundredths *)
IntegerPart(a, num) == (a * num) \div 100

(* exact: the alpha is the integer part of a * o.  Otherwise: it is the
   integer part of a * o or, when a * o is a whole number, one less; and it
   is the integer part of a * o when o is a multiple of 0.25. *)
AlphaScaled(exact, a, num, alpha) ==
    IF exact
    THEN alpha = IntegerPart(a, num)
    ELSE /\ \/ alpha = IntegerPart(a, num)
            \/ (a * num) % 100 = 0 /\ alpha = IntegerPart(a, num) - 1
         /\ num % 25 = 0 => alpha = IntegerPart(a, num)

OpacityScalesAlphaOnly(exact) ==
    (PlainPair /\ BothFinal) =>
        /\ calls[1].pc = calls[2].pc
        /\ calls[1].error = calls[2].error
        /\ calls[1].placed = calls[2].placed
        /\ calls[1].pc = "returned" =>
               LET styled == heap[calls[1].canvas]
                   plain  == heap[calls[2].canvas]
               IN  /\ styled.w = plain.w /\ styled.h = plain.h
                   /\ Len(styled.pastes) = Len(plain.pastes)
                   /\ \A j \in 1..Len(styled.pastes) :
                          LET p == styled.pastes[j]
                              q == plain.pastes[j]
                              o == GivenOpacity(p.id)
                          IN  /\ SameBox(p, q)
                              /\ p.id \in DOMAIN calls[1].placed
                              /\ calls[1].placed[p.id] = BoxOf(p)
                              /\ Untouched(o) => p.alpha = q.alpha
                              /\ Scaled(o) => AlphaScaled(exact, q.alpha, o[1], p.alpha)

(* C21 as stated: a layer with opacity 0 <= o < 1 is pasted with every alpha
   value a replaced by the integer part of a * o, at the position and with
   the extents it has without the opacity; with the opacity absent or 1 its
   alpha is untouched; with o = 0 its alpha is 0 and its box is in the
   ledger all the same. *)
C21_AlphaIsIntegerPart == OpacityScalesAlphaOnly(TRUE)

(* C21 amended: the alpha value a is replaced by int(a * float(o)), which is
   the integer part of a * o or, when a * o is a whole number, possibly one
   less; it is the integer part of a * o for o = 0, 0.25, 0.5, 0.75.
   Position, extents and ledger are as without the opacity. *)
C21_AlphaIsTruncatedFloatProduct == OpacityScalesAlphaOnly(FALSE)

C21_Witness ==
    /\ PlainPair
    /\ BothFinal
    /\ calls[1].pc = "returned"
    /\ Len(given[1].layers) = 2
    /\ given[1].layers[1].image = InputRef(1)
    /\ given[1].layers[1].opacity = << 50 >>
    /\ given[1].layers[2].image = InputRef(2)
    /\ given[1].layers[2].opacity = << 0 >>
    /\ heap[calls[1].canvas].pastes[1].alpha = 127
    /\ heap[calls[1].canvas].pastes[2].alpha = 0
    /\ heap[calls[2].canvas].pastes[2].alpha = 200
    /\ "b" \in DOMAIN calls[1].placed
    /\ calls[1].placed["b"].h = 2

-----------------------------------------------------------------------------
(* Claims about the order of validation and drawing in composite *)

Invoked == pc # "idle"

(* C22: a layer list with a structural defect (empty; a root that carries
   an anchor or lacks its artifact; a later layer without anchor or
   artifact; an artifact that is no raster artifact) is rejected before
   anything is pasted, wherever in the list the defect is; and an
   invocation that raises returns no artifact. *)
C22_ValidationBeforeDrawing ==
    /\ (Invoked /\ ~StructurallyValid(manifest.layers)) =>
           /\ canvas.pastes = << >>
           /\ pc # "returned"
    /\ pc = "raised" => result = NoResult

-----------------------------------------------------------------------------
(* Claims about the placement ledger *)

(* the ids of the layers drawn before the layer at position n of the order *)
DrawnBefore(n) == {z_order[j] : j \in 1..(n - 1)}

(* Immediately before layer k is resolved (and when the loop has ended or
   was left by an error): the ledger holds exactly the layers drawn so far,
   each with the position it was pasted at and the extents of its artifact,
   and each relative layer drawn was resolved against a layer drawn before
   it. *)
LedgerOfDrawn ==
    canvas.created =>
        /\ DOMAIN placed = DrawnBefore(k)
        /\ Len(canvas.pastes) = k - 1
        /\ \A j \in 1..(k - 1) :
               LET layer == EntryOf(manifest.layers, z_order[j])
                   p     == canvas.pastes[j]
               IN  /\ p.id = layer.id
                   /\ placed[layer.id] =
                          [x |-> p.x, y |-> p.y, w |-> layer.image.w, h |-> layer.image.h]
                   /\ IsRelative(layer) => layer.anchor.parent \in DrawnBefore(j)

(* An entry of the ledger stays as it is. *)
LedgerKept == \A id \in DOMAIN placed : id \in DOMAIN placed' /\ placed'[id] = placed[id]

(* C23: the placement ledger holds, before each layer is resolved, exactly
   the layers drawn before it, each as (x, y, width, height) with the
   resolved position and the extents of the artifact, whatever part of it
   fell outside the canvas; no entry is ever removed or changed; a relative
   anchor resolves against a layer drawn earlier. *)
C23_PlacementLedger == [](LedgerOfDrawn) /\ [][LedgerKept]_vars

C23_Witness ==
    /\ pc = "loop"
    /\ k = 3
    /\ Len(z_order) = 3
    /\ z_order # Ids(manifest.layers)
    /\ Overhangs(canvas.pastes[2], canvas)
    /\ placed[z_order[2]].w > canvas.w
    /\ IsRelative(EntryOf(manifest.layers, z_order[3]))

-----------------------------------------------------------------------------
(* Z-order inference of the mapping form: one root, at most one child *)

(* The parents that two or more layers of the mapping anchor to. *)
SharedParents(layers) ==
    { layers[i].anchor.parent : i \in { j \in 1..Len(layers) :
          /\ IsRelative(layers[j])
          /\ \E m \in 1..Len(layers) :
                 /\ m # j
                 /\ IsRelative(layers[m])
                 /\ layers[m].anchor.parent = layers[j].anchor.parent } }

(* The layers of the mapping with no relative anchor. *)
NonRelative(layers) == { i \in 1..Len(layers) : ~IsRelative(layers[i]) }

(* The shared parent that a layer names first, in the order of the mapping. *)
EarliestSharedParent(layers) ==
    LET first == CHOOSE i \in 1..Len(layers) :
                     /\ IsRelative(layers[i])
                     /\ layers[i].anchor.parent \in SharedParents(layers)
                     /\ \A j \in 1..(i - 1) :
                            ~IsRelative(layers[j])
                            \/ layers[j].anchor.parent \notin SharedParents(layers)
    IN  layers[first].anchor.parent

AllImages(layers) == \A i \in 1..Len(layers) : layers[i].image.kind = "image"

(* What composite does with the outcome of the inference, for a mapping whose
   artifacts are all images: the error is raised as it is, and nothing has
   been drawn. *)
InferenceErrorRaisedUndrawn(z) ==
    (Done /\ AllImages(manifest.layers) /\ z.err # NoError)
        => (pc = "raised" /\ error = z.err /\ canvas = NoCanvas /\ placed = EmptyLedger)

(* C24, as stated: whenever two or more layers anchor to the same parent the
   inference fails with the ambiguity error naming that parent and its
   siblings, and a mapping with zero or several roots is rejected. *)
C24_SiblingsAlwaysAmbiguous ==
    (manifest.layersType = "dict" /\ pc # "idle") =>
        LET layers == manifest.layers
            z      == _determine_z_order(layers)
        IN  /\ Cardinality(NonRelative(layers)) # 1 => z.err # NoError
            /\ SharedParents(layers) # {} =>
                   /\ z.err.code = "E_AMBIGUOUS_Z"
                   /\ z.err.parent \in SharedParents(layers)
            /\ InferenceErrorRaisedUndrawn(z)

(* C24, amended: the count of roots is checked first.  A mapping with zero or
   several roots fails with the root-count error, also when layers share a
   parent; a mapping with exactly one root in which layers share a parent fails
   with the ambiguity error, which names the shared parent that comes first in
   the mapping and, as its siblings, the layers anchored to it in mapping
   order; an inference that succeeds had exactly one root and no parent with
   more than one child.  The error is raised before anything is drawn. *)
C24_RootCountThenSiblings ==
    (manifest.layersType = "dict" /\ pc # "idle") =>
        LET layers == manifest.layers
            z      == _determine_z_order(layers)
        IN  /\ Cardinality(NonRelative(layers)) # 1 => z.err.code = "E_ROOT_COUNT"
            /\ (Cardinality(NonRelative(layers)) = 1 /\ SharedParents(layers) # {}) =>
                   /\ z.err.code = "E_AMBIGUOUS_Z"
                   /\ z.err.parent = EarliestSharedParent(layers)
                   /\ Len(Children(layers, z.err.parent)) >= 2
                   /\ \A i \in 1..Len(layers) :
                          (IsRelative(layers[i]) /\ layers[i].anchor.parent = z.err.parent)
                              <=> layers[i].id \in Range(Children(layers, z.err.parent))
            /\ z.err = NoError =>
                   /\ Cardinality(NonRelative(layers)) = 1
                   /\ SharedParents(layers) = {}
            /\ InferenceErrorRaisedUndrawn(z)

(* Two layers anchored to the one root: the ambiguity error names the root,
   and nothing was drawn. *)
C24_Witness ==
    /\ pc = "raised"
    /\ manifest.layersType = "dict"
    /\ Len(manifest.layers) = 3
    /\ AllImages(manifest.layers)
    /\ NonRelative(manifest.layers) = {2}
    /\ SharedParents(manifest.layers) = { "b" }
    /\ error = Err("E_AMBIGUOUS_Z", NoId, "b")
    /\ canvas = NoCanvas

-----------------------------------------------------------------------------
(* No silent defaulting of a relative anchor's alignment or of an opacity *)

(* A relative anchor that states no alignment. *)
BareAnchor(layer) == IsRelative(layer) /\ layer.anchor.align = NoAlign

(* An opacity, in hundredths, outside [0, 1]. *)
OpacityOutOfRange(layer) ==
    layer.opacity # << >> /\ (layer.opacity[1] < 0 \/ layer.opacity[1] > 100)

(* C25: an invocation of composite given a layer whose relative anchor has
   no alignment, or whose opacity lies outside [0, 1], fails; it never
   returns a canvas drawn with a default in place of the value. *)
C25_NoSilentDefault ==
    \A i \in DOMAIN calls :
        (/\ calls[i].op = "composite"
         /\ Final(calls[i])
         /\ \E j \in 1..Len(given[i].layers) :
                \/ BareAnchor(given[i].layers[j])
                \/ OpacityOutOfRange(given[i].layers[j]))
            => calls[i].pc = "raised"

-----------------------------------------------------------------------------
(* The order returned by _determine_z_order is a chain from the root *)

(* order holds every layer id of the mapping exactly once *)
IsPermutationOfIds(order, layers) ==
    /\ Len(order) = Len(layers)
    /\ \A i \in 1..Len(layers) : \E j \in 1..Len(order) : order[j] = layers[i].id
    /\ \A i, j \in 1..Len(order) : order[i] = order[j] => i = j

(* the first element is the only layer with no relative anchor, and every
   later element is anchored to the element just before it *)
IsChainFromRoot(order, layers) ==
    /\ order # << >>
    /\ \A i \in 1..Len(layers) : ~IsRelative(layers[i]) <=> layers[i].id = order[1]
    /\ \A j \in 2..Len(order) :
           /\ IsRelative(EntryOf(layers, order[j]))
           /\ EntryOf(layers, order[j]).anchor.parent = order[j - 1]

(* C26: an order returned by _determine_z_order is a permutation of the layer
   ids that starts with the unique layer without a relative anchor and in
   which every later layer's parent is the element before it; so in composite
   the parent of a relative layer is in the ledger when the layer is
   resolved, and "hasn't been placed yet" is never raised. *)
C26_OrderIsChainFromRoot ==
    (manifest.layersType = "dict" /\ pc # "idle") =>
        LET layers == manifest.layers
            z      == _determine_z_order(layers)
        IN  /\ z.err = NoError =>
                   /\ IsPermutationOfIds(z.order, layers)
                   /\ IsChainFromRoot(z.order, layers)
            /\ pc \in { "loop", "returned" } => z_order = z.order
            /\ (pc = "loop" /\ k <= Len(z_order)
                    /\ IsRelative(EntryOf(layers, z_order[k]))) =>
                   EntryOf(layers, z_order[k]).anchor.parent \in DOMAIN placed
            /\ error.code # "E_PARENT_NOT_PLACED"

(* A chain given in another order than it is drawn in: c is the root, a is
   anchored to c and b to a; b is about to be resolved against the ledger. *)
C26_Witness ==
    /\ pc = "loop"
    /\ manifest.layersType = "dict"
    /\ z_order = << "c", "a", "b" >>
    /\ k = 3
    /\ EntryOf(manifest.layers, "b").anchor.parent = "a"
    /\ "a" \in DOMAIN placed

-----------------------------------------------------------------------------
(* _determine_z_order as a state machine (lines 127-190): the statements up
   to the start of the walk, one iteration of the while loop per step, and
   the statements after the loop. *)

WalkNames == << "a", "b", "c", "d", "e", "f" >>

WalkParents == { WalkNames[i] : i \in 1..MaxLayers } \cup { UnknownId }

WalkAnchors ==
    { NoAnchor, absolute(0, 0) }
    \cup { relative(p, AlignCC, 0, 0) : p \in WalkParents }

(* the longest z_order the walk is followed to; a walk that visits no layer
   twice stays below it *)
WalkCap == MaxLayers + 2

WalkLayers(n, f) == [i \in 1..n |-> Layer(WalkNames[i], f[i], Image(1, 1))]

(* _determine_z_order(layers) is invoked. *)
OrderCall ==
    /\ walk_pc = "idle"
    /\ \E n \in 0..MaxLayers : \E f \in [1..n -> WalkAnchors] :
           walk_layers' = WalkLayers(n, f)
    /\ walk_pc' = "called"
    /\ UNCHANGED <<walk_order, walk_current, walk_error>>
    /\ UNCHANGED notWalkVars

(* Lines 133-174: parent_map and roots, the root count, children, the
   sibling check, z_order = [root], current = root. *)
OrderBuild ==
    /\ walk_pc = "called"
    /\ LET roots == Roots(walk_layers)
       IN  IF Len(roots) # 1
           THEN /\ walk_error' = Err("E_ROOT_COUNT", NoId, NoId)
                /\ walk_pc' = "raised"
                /\ UNCHANGED <<walk_order, walk_current>>
           ELSE IF SiblingParents(walk_layers) # {}
           THEN /\ walk_error' = Err("E_AMBIGUOUS_Z", NoId, FirstSiblingParent(walk_layers))
                /\ walk_pc' = "raised"
                /\ UNCHANGED <<walk_order, walk_current>>
           ELSE /\ walk_order' = << roots[1] >>
                /\ walk_current' = roots[1]
                /\ walk_pc' = "walk"
                /\ UNCHANGED walk_error
    /\ UNCHANGED walk_layers
    /\ UNCHANGED notWalkVars

(* Lines 176-180: while current in children: child = children[current][0];
   z_order.append(child); current = child. *)
OrderStep ==
    /\ walk_pc = "walk"
    /\ Children(walk_layers, walk_current) # << >>
    /\ Len(walk_order) < WalkCap
    /\ LET child == Children(walk_layers, walk_current)[1]
       IN  /\ walk_order' = Append(walk_order, child)
           /\ walk_current' = child
    /\ UNCHANGED <<walk_layers, walk_pc, walk_error>>
    /\ UNCHANGED notWalkVars

(* Lines 183-190: the loop is left; an order that misses layers is an
   error, a complete one is returned. *)
OrderFinish ==
    /\ walk_pc = "walk"
    /\ Children(walk_layers, walk_current) = << >>
    /\ IF Len(walk_order) # Len(walk_layers)
       THEN /\ walk_error' = Err("E_Z_INCOMPLETE", NoId, NoId)
            /\ walk_pc' = "raised"
       ELSE /\ walk_pc' = "returned"
            /\ UNCHANGED walk_error
    /\ UNCHANGED <<walk_layers, walk_order, walk_current>>
    /\ UNCHANGED notWalkVars

NextWalk ==
    \/ OrderCall
    \/ OrderBuild
    \/ OrderStep
    \/ OrderFinish

(* The function is sequential code: once invoked, its next statement is
   executed. *)
SpecWalk ==
    /\ Init
    /\ [][NextWalk]_vars
    /\ WF_vars(OrderBuild)
    /\ WF_vars(OrderStep)
    /\ WF_vars(OrderFinish)

-----------------------------------------------------------------------------
(* Termination of _determine_z_order *)

WalkDone == walk_pc \in { "returned", "raised" }

(* The layer id is anchored, directly or through other layers, to a layer
   with no relative anchor; fuel bounds the parents followed. *)
RECURSIVE ReachesRoot(_, _, _)
ReachesRoot(layers, id, fuel) ==
    IF \A i \in 1..Len(layers) : layers[i].id # id
    THEN FALSE
    ELSE IF ~IsRelative(EntryOf(layers, id))
    THEN TRUE
    ELSE IF fuel = 0
    THEN FALSE
    ELSE ReachesRoot(layers, EntryOf(layers, id).anchor.parent, fuel - 1)

(* Some layer is anchored to itself, lies on a cycle, names a parent that is
   no layer, or hangs on such a layer: it is connected to no root. *)
Unrooted(layers) ==
    \E i \in 1..Len(layers) : ~ReachesRoot(layers, layers[i].id, Len(layers))

(* the walk has visited no layer twice, and only layers of the mapping *)
VisitsOnce ==
    /\ \A i, j \in 1..Len(walk_order) : walk_order[i] = walk_order[j] => i = j
    /\ \A i \in 1..Len(walk_order) :
           \E j \in 1..Len(walk_layers) : walk_layers[j].id = walk_order[i]

(* an order is returned only when it holds every layer *)
NeverShortened ==
    walk_pc = "returned" => IsPermutationOfIds(walk_order, walk_layers)

(* the steps end as the function computed at once does *)
WalkAgrees ==
    WalkDone =>
        LET z == _determine_z_order(walk_layers)
        IN  /\ walk_error = z.err
            /\ walk_pc = "returned" => walk_order = z.order

Terminates == (walk_pc = "called") ~> WalkDone

(* C27, as stated: _determine_z_order terminates on every mapping, the walk
   visits each layer at most once, and a mapping with a cycle, a
   self-reference, an unknown parent or a layer disconnected from the root
   ends in the "Z-order determination incomplete" error. *)
C27_DefectsEndIncomplete ==
    /\ Terminates
    /\ [](VisitsOnce /\ NeverShortened)
    /\ []((WalkDone /\ Unrooted(walk_layers)) => walk_error.code = "E_Z_INCOMPLETE")

(* C27, amended: _determine_z_order terminates on every mapping, the walk
   visits each layer at most once, and no shortened order is returned.  A
   mapping with a cycle, a self-reference, an unknown parent or a layer
   disconnected from the root is rejected: with the root-count error when it
   has not exactly one root, with the ambiguity error when it has one root
   and layers that share a parent, and with the "Z-order determination
   incomplete" error otherwise. *)
C27_TerminatesAndRejectsDefects ==
    /\ Terminates
    /\ [](VisitsOnce /\ NeverShortened /\ WalkAgrees)
    /\ []((WalkDone /\ Unrooted(walk_layers)) =>
             /\ walk_pc = "raised"
             /\ walk_error.code =
                    IF Cardinality(NonRelative(walk_layers)) # 1 THEN "E_ROOT_COUNT"
                    ELSE IF SharedParents(walk_layers) # {} THEN "E_AMBIGUOUS_Z"
                    ELSE "E_Z_INCOMPLETE")

(* A root with one child, and a third layer anchored to itself: the walk
   went from the root to its child, stopped there, and the missing layer
   was reported. *)
C27_Witness ==
    /\ walk_pc = "raised"
    /\ Len(walk_layers) = 3
    /\ walk_order = << "a", "b" >>
    /\ IsRelative(walk_layers[3])
    /\ walk_layers[3].anchor.parent = "c"
    /\ walk_error.code = "E_Z_INCOMPLETE"

-----------------------------------------------------------------------------
(* The root layer and the canvas *)

(* C28: in every successful invocation of composite the ledger entry of the
   root, the first layer drawn, is (0, 0, canvas width, canvas height): the
   root is drawn at the origin of the canvas and covers it. *)
C28_RootAtOrigin ==
    pc = "returned" =>
        /\ z_order # << >>
        /\ z_order[1] \in DOMAIN placed
        /\ placed[z_order[1]] = [x |-> 0, y |-> 0, w |-> canvas.w, h |-> canvas.h]
        /\ canvas.pastes[1].x = 0
        /\ canvas.pastes[1].y = 0

-----------------------------------------------------------------------------
(* The canvas of layout is the tight bounding box of the placed items *)

(* C29: in every successful layout each item's box lies inside the output
   canvas on both axes, the first item starts at main position 0, each item
   starts exactly gap pixels after the end of the item before it (an integer
   gap >= 0, so the items do not overlap), the last item ends at the main-axis
   extent of the canvas, and some item spans the whole cross-axis extent. *)
C29_TightBoundingBox ==
    layout_pc = "returned" =>
        LET m     == layout_manifest
            d     == m.direction
            ps    == layout_result.pastes
            n     == Len(ps)
            main  == MainExtent(d, layout_result)
            cross == CrossExtent(d, layout_result)
        IN  /\ n = Len(m.items) /\ n >= 1
            /\ \A i \in 1..n :
                   /\ 0 <= MainPos(d, ps[i])
                   /\ MainPos(d, ps[i]) + MainExtent(d, ps[i]) <= main
                   /\ 0 <= CrossPos(d, ps[i])
                   /\ CrossPos(d, ps[i]) <= cross - CrossExtent(d, ps[i])
            /\ MainPos(d, ps[1]) = 0
            /\ IntegralGap(m) =>
                   \A i \in 1..(n - 1) :
                       /\ MainPos(d, ps[i + 1])
                              = MainPos(d, ps[i]) + MainExtent(d, ps[i]) + GapPixels(m)
                       /\ MainPos(d, ps[i + 1]) >= MainPos(d, ps[i]) + MainExtent(d, ps[i])
            /\ MainPos(d, ps[n]) + MainExtent(d, ps[n]) = main
            /\ \E i \in 1..n :
                   /\ CrossExtent(d, ps[i]) = cross
                   /\ CrossPos(d, ps[i]) = 0

(* A column of three items of different widths and heights, two pixels
   apart and aligned to the end: the narrow items sit away from the start of
   the cross axis. *)
C29_Witness ==
    /\ layout_pc = "returned"
    /\ layout_manifest.direction = "column"
    /\ layout_manifest.align = "e"
    /\ layout_manifest.gap = 4
    /\ Len(layout_result.pastes) = 3
    /\ layout_result.pastes[1].x > 0
    /\ layout_result.pastes[2].x = 0
    /\ layout_result.pastes[3].y + layout_result.pastes[3].h = layout_result.h
    /\ layout_result.pastes[1].h # layout_result.pastes[1].w

-----------------------------------------------------------------------------
(* A layer aligned to the same side of a parent that is no smaller *)

(* The interval [pos, pos + size) against the parent's interval
   [parent_pos, parent_pos + parent_size), for the alignment code used on
   both sides. *)
InsideOnSameSide(code, pos, size, parent_pos, parent_size) ==
    LET before == pos - parent_pos
        after  == (parent_pos + parent_size) - (pos + size)
    IN  /\ before >= 0
        /\ after >= 0
        /\ code = "s" => before = 0
        /\ code = "e" => after = 0
        /\ code = "c" => (before - after \in { 0 - 1, 0, 1 })

(* C30: for a relative anchor with the same code for self and parent on an
   axis (s@s, c@c or e@e), zero offset on that axis and a layer no larger than
   its parent on that axis, the resolved interval lies inside the parent's
   interval; for c@c the margins on the two sides differ by at most one, for
   s@s the starts coincide, for e@e the ends coincide. *)
C30_SameSideContained ==
    "b" \in DOMAIN placed =>
        LET self   == EntryOf(manifest.layers, "b")
            sides  == SidesOf(self.anchor.align)
            parent == placed["a"]
            box    == placed["b"]
        IN  /\ ( /\ AxisCode(sides[1], 1) = AxisCode(sides[2], 1)
                 /\ self.anchor.x = 0
                 /\ self.image.w <= parent.w )
               => ( /\ box.w = self.image.w
                    /\ InsideOnSameSide(AxisCode(sides[1], 1), box.x, box.w,
                                        parent.x, parent.w) )
            /\ ( /\ AxisCode(sides[1], 2) = AxisCode(sides[2], 2)
                 /\ self.anchor.y = 0
                 /\ self.image.h <= parent.h )
               => ( /\ box.h = self.image.h
                    /\ InsideOnSameSide(AxisCode(sides[1], 2), box.y, box.h,
                                        parent.y, parent.h) )

(* Centre on centre on the x axis, a layer of width 2 in a parent of width
   3 that does not start at 0: the margins are 0 and 1. *)
C30_Witness ==
    /\ pc = "returned"
    /\ "b" \in DOMAIN placed
    /\ LET self  == EntryOf(manifest.layers, "b")
           sides == SidesOf(self.anchor.align)
       IN  /\ AxisCode(sides[1], 1) = "c"
           /\ AxisCode(sides[2], 1) = "c"
           /\ self.anchor.x = 0
           /\ self.image.w = 2
           /\ placed["a"].w = 3
           /\ placed["a"].x # 0
           /\ placed["b"].x = placed["a"].x

====
